---- MODULE Spec2Model ----
(***************************************************************************)
(* Resume-screening backend: the GitHub statistics fetcher with its TTL    *)
(* cache (backend/utils.py) and the /analyze endpoint with its grouping    *)
(* rules (backend/main.py, the asynchronous variant).                      *)
(***************************************************************************)
EXTENDS Integers, Sequences, FiniteSets, TLC

VARIABLES
    GH_CACHE,     \* utils._GH_CACHE: username -> (ts, data)
    now,          \* time.time(), in seconds
    ticks,        \* number of clock advances so far
    calls,        \* the fetch_github_stats_async coroutines in flight
    ret,          \* the latest return of a fetch to its caller
    lastContact,  \* username -> start of the latest fetch that went to the API
    lastSuccess,  \* username -> return time of the latest fetch that stored a record
    lastFailed,   \* usernames whose latest returned fetch failed, none begun since
    pc,              \* position of the /analyze request
    require_github,  \* form field require_github
    total_q,         \* len(questions_payload)
    resumes,         \* the uploaded files, in upload order
    github_tasks,    \* resume id -> the statistics task started for it
    openai_calls,    \* the matching calls issued, each the ids of its RESUMES
    openai_results,  \* the parsed reply of the matching call
    results_out,     \* the results list of the response
    classified,      \* inputs and outcome of a grouping decision taken alone
    llm_ret,         \* how the latest call of the matching model ended
    scored,          \* a statistics record and the score computed for it
    extracted,       \* a text and the profile URLs extracted from it
    limiter,         \* the rate-limiting fields of a service and the calls of _rate_limit in flight
    analysis,        \* a call of ChatGPTService.analyze_resume
    ranking          \* a call of ChatGPTService.rank_resumes

fetchVars == <<GH_CACHE, now, ticks, calls, ret, lastContact, lastSuccess, lastFailed>>

analyzeVars == <<pc, require_github, total_q, resumes, github_tasks,
                 openai_calls, openai_results, results_out>>

\* The units exercised alone, outside a request.
serviceVars == <<limiter, analysis, ranking>>

unitVars == <<llm_ret, scored, extracted, limiter, analysis, ranking>>

vars == <<GH_CACHE, now, ticks, calls, ret, lastContact, lastSuccess, lastFailed,
          pc, require_github, total_q, resumes, github_tasks, openai_calls,
          openai_results, results_out, classified, llm_ret, scored, extracted,
          limiter, analysis, ranking>>

----------------------------------------------------------------------------
(* Bounds *)

MaxCalls == 2
MaxTicks == 2
MaxCriteria == 5
MaxQuestions == 2
MaxResults == 2
MaxMentions == 2
MaxLinks == 3
MaxPdfItems == 3
MaxCoroutines == 3
MaxRateCalls == 4
MaxElapsed == 63
MaxPdfFiles == 2

CallIds == 1..MaxCalls

----------------------------------------------------------------------------
(* Python helpers *)

EmptyDict == <<>>

\* dict.get(k, default)
Get(d, k, default) == IF k \in DOMAIN d THEN d[k] ELSE default

\* str.startswith
startswith(s, p) == Len(s) >= Len(p) /\ SubSeq(s, 1, Len(p)) = p

\* str.replace(old, new): every non-overlapping occurrence, left to right
RECURSIVE replace(_, _, _)
replace(s, old, new) ==
    IF Len(s) = 0 THEN ""
    ELSE IF startswith(s, old)
         THEN new \o replace(SubSeq(s, Len(old) + 1, Len(s)), old, new)
         ELSE SubSeq(s, 1, 1) \o replace(SubSeq(s, 2, Len(s)), old, new)

\* str.split(sep) for a one-character separator
RECURSIVE split(_, _)
split(s, sep) ==
    IF \E i \in 1..Len(s) : SubSeq(s, i, i) = sep
    THEN LET i == CHOOSE k \in 1..Len(s) :
                      /\ SubSeq(s, k, k) = sep
                      /\ \A j \in 1..(k - 1) : SubSeq(s, j, j) # sep
         IN  <<SubSeq(s, 1, i - 1)>> \o split(SubSeq(s, i + 1, Len(s)), sep)
    ELSE <<s>>

----------------------------------------------------------------------------
(* The statistics fetcher: utils.py *)

GH_CACHE_TTL_SECONDS == 24 * 60 * 60

YearSeconds == 365 * 24 * 60 * 60

GithubPrefix == "https://github.com/"

\* The URLs handed to the fetcher.
GithubUrls ==
    { "",
      "http://github.com/alice",
      "https://gitlab.com/alice",
      "https://github.com/",
      "https://github.com/alice",
      "https://github.com/alice/repo",
      "https://github.com/bob" }

\* The URLs of one account: its profile and one of its repositories.
AccountUrls == {"https://github.com/alice", "https://github.com/alice/repo"}

\* Bodies of the user-record response: a full profile and an empty JSON object.
UserDatas ==
    { [public_repos |-> 3, followers |-> 2, following |-> 1,
       created_at |-> "2020-01-01T00:00:00Z", bio |-> "dev",
       company |-> "acme", location |-> "earth", blog |-> "blog.example"] }

\* Bodies of the repository-list response.  updated_at is a timestamp with
\* an offset ("aware", as GitHub sends it), one without ("naive"), or text
\* that is no ISO timestamp ("bad"); t is its time in seconds.
ReposDatas ==
    { << [stargazers_count |-> 6, forks_count |-> 1,
          updated_at |-> [kind |-> "aware", t |-> 0]],
         [stargazers_count |-> 2,
          updated_at |-> [kind |-> "naive", t |-> 0]],
         [forks_count |-> 4,
          updated_at |-> [kind |-> "bad", t |-> 0]] >> }

FailureKinds == {"status", "error", "timeout", "badjson"}

UserOutcomes ==
    {[kind |-> "ok", body |-> d] : d \in UserDatas}
        \cup {[kind |-> k, body |-> EmptyDict] : k \in FailureKinds}

ReposOutcomes ==
    {[kind |-> "ok", body |-> d] : d \in ReposDatas}
        \cup {[kind |-> k, body |-> <<>>] : k \in FailureKinds}

\* The response of a request that was never sent.
NoResponse == [kind |-> "none", body |-> <<>>]

HasGithubPrefix_any_scheme(github_url) ==
    github_url # "" /\ startswith(github_url, "http")

\* utils.py:230 / 371
HasGithubPrefix(github_url) ==
    github_url # "" /\ startswith(github_url, GithubPrefix)

\* utils.py:235,238 / 375,378
ParseUsername(github_url) ==
    split(replace(github_url, GithubPrefix, ""), "/")[1]

Expired_at_ttl(t, ts) == t - ts >= GH_CACHE_TTL_SECONDS

\* utils.py:353
Expired(t, ts) == t - ts > GH_CACHE_TTL_SECONDS

\* utils.py:347-360: the value returned and the cache it leaves behind
gh_cache_get(cache, username, t) ==
    IF username \notin DOMAIN cache
    THEN [data |-> EmptyDict, cache |-> cache]
    ELSE IF Expired(t, cache[username].ts)
         THEN [data  |-> EmptyDict,
               cache |-> [u \in DOMAIN cache \ {username} |-> cache[u]]]
         ELSE [data |-> cache[username].data, cache |-> cache]

gh_cache_set_dropped(cache, username, data, t) == cache

\* utils.py:363-364
gh_cache_set(cache, username, data, t) ==
    [u \in DOMAIN cache \cup {username} |->
        IF u = username THEN [ts |-> t, data |-> data] ELSE cache[u]]

RECURSIVE SumField(_, _)
SumField(repos, k) ==
    IF repos = <<>> THEN 0
    ELSE Get(Head(repos), k, 0) + SumField(Tail(repos), k)

\* utils.py:410-417: a repository counts when its timestamp parses and is
\* after the cutoff; comparing an offset-aware timestamp with the naive
\* cutoff raises, and the repository is skipped like an unparsable one.
RECURSIVE RecentRepos(_, _)
RecentRepos(repos, t) ==
    IF repos = <<>> THEN 0
    ELSE (IF /\ "updated_at" \in DOMAIN Head(repos)
             /\ Head(repos).updated_at.kind = "naive"
             /\ Head(repos).updated_at.t > t - YearSeconds
          THEN 1 ELSE 0) + RecentRepos(Tail(repos), t)

BuildStats_without_username(username, user_data, repos_data, t) ==
    [public_repos    |-> Get(user_data, "public_repos", 0),
     followers       |-> Get(user_data, "followers", 0),
     following       |-> Get(user_data, "following", 0),
     total_stars     |-> SumField(repos_data, "stargazers_count"),
     total_forks     |-> SumField(repos_data, "forks_count"),
     recent_activity |-> RecentRepos(repos_data, t),
     profile_created |-> Get(user_data, "created_at", ""),
     bio             |-> Get(user_data, "bio", ""),
     company         |-> Get(user_data, "company", ""),
     location        |-> Get(user_data, "location", ""),
     blog            |-> Get(user_data, "blog", "")]

\* utils.py:401-432 (and 262-294)
BuildStats(username, user_data, repos_data, t) ==
    [username        |-> username,
     public_repos    |-> Get(user_data, "public_repos", 0),
     followers       |-> Get(user_data, "followers", 0),
     following       |-> Get(user_data, "following", 0),
     total_stars     |-> SumField(repos_data, "stargazers_count"),
     total_forks     |-> SumField(repos_data, "forks_count"),
     recent_activity |-> RecentRepos(repos_data, t),
     profile_created |-> Get(user_data, "created_at", ""),
     bio             |-> Get(user_data, "bio", ""),
     company         |-> Get(user_data, "company", ""),
     location        |-> Get(user_data, "location", ""),
     blog            |-> Get(user_data, "blog", "")]

ExceptReturn_reraised(exc) == [raised |-> TRUE, value |-> EmptyDict]

\* What a failed step of the fetcher hands to its caller.
\* utils.py:436-438 (and 295-297): except Exception -> return {}
ExceptReturn(exc) == [raised |-> FALSE, value |-> EmptyDict]

\* utils.py:392-393 (and 252-253): non-200 user record -> return {}
StatusReturn(status) == [raised |-> FALSE, value |-> EmptyDict]

NormalReturn(v) == [raised |-> FALSE, value |-> v]

\* The exception a response raises in the fetcher, "none" when it does not:
\* a transport error or timeout in client.get, a decoding error in .json()
RaisedBy(outcome) ==
    CASE outcome.kind = "error"   -> "ConnectError"
      [] outcome.kind = "timeout" -> "TimeoutException"
      [] outcome.kind = "badjson" -> "JSONDecodeError"
      [] OTHER                    -> "none"

\* A slot of the event loop that holds no fetch.
FreeCall ==
    [pc |-> "free", url |-> "", username |-> "", user_data |-> EmptyDict]

NoReturn ==
    [variant |-> "", url |-> "", value |-> EmptyDict, raised |-> FALSE,
     contacted |-> FALSE, age |-> 0, user |-> "none", repos |-> "none"]

NoTime == 0 - 1

Usernames == {"alice", "bob"}

InFlight == {c \in CallIds : calls[c].pc # "free"}

\* A new coroutine takes the lowest free slot.
CanBegin(c) ==
    /\ calls[c].pc = "free"
    /\ \A d \in 1..(c - 1) : calls[d].pc # "free"

\* The record of a return to the caller: what was asked, what came back,
\* whether the API was contacted, the age of the cache entry that answered
\* (0 when none did), and how the two requests ended.
Returned(variant, github_url, r, contacted, age, uo, ro) ==
    [variant |-> variant, url |-> github_url, value |-> r.value,
     raised |-> r.raised, contacted |-> contacted, age |-> age,
     user |-> uo.kind, repos |-> ro.kind]

\* utils.py:371-391: up to the first await on the user-record request
FetchAsyncBegin(c, github_url) ==
    /\ CanBegin(c)
    /\ IF ~HasGithubPrefix(github_url) \/ ParseUsername(github_url) = ""
       THEN /\ ret' = Returned("async", github_url, NormalReturn(EmptyDict),
                               FALSE, 0, NoResponse, NoResponse)
            /\ UNCHANGED <<GH_CACHE, calls, lastContact, lastFailed>>
       ELSE LET username == ParseUsername(github_url)
                got      == gh_cache_get(GH_CACHE, username, now)
            IN  /\ GH_CACHE' = got.cache
                /\ lastFailed' = lastFailed \ {username}
                /\ IF got.data # EmptyDict
                   THEN /\ ret' = Returned("async", github_url, NormalReturn(got.data),
                                           FALSE, now - GH_CACHE[username].ts,
                                           NoResponse, NoResponse)
                        /\ UNCHANGED <<calls, lastContact>>
                   ELSE /\ calls' = [calls EXCEPT ![c] =
                               [pc |-> "user", url |-> github_url,
                                username |-> username,
                                user_data |-> EmptyDict]]
                        /\ lastContact' = [lastContact EXCEPT ![username] = now]
                        /\ UNCHANGED ret
    /\ UNCHANGED <<now, ticks, lastSuccess, analyzeVars, classified, unitVars>>

ReturnFailure_cached(c, r, uo, ro) ==
    /\ ret' = Returned("async", calls[c].url, r, TRUE, 0, uo, ro)
    /\ calls' = [calls EXCEPT ![c] = FreeCall]
    /\ lastFailed' = lastFailed \cup {calls[c].username}
    /\ GH_CACHE' = gh_cache_set(GH_CACHE, calls[c].username, r.value, now)
    /\ UNCHANGED lastSuccess

\* The coroutine in slot c returns r without having stored anything.
ReturnFailure(c, r, uo, ro) ==
    /\ ret' = Returned("async", calls[c].url, r, TRUE, 0, uo, ro)
    /\ calls' = [calls EXCEPT ![c] = FreeCall]
    /\ lastFailed' = lastFailed \cup {calls[c].username}
    /\ UNCHANGED <<GH_CACHE, lastSuccess>>

\* utils.py:391-398: the user-record response arrives
FetchAsyncUser(c, outcome) ==
    /\ calls[c].pc = "user"
    /\ IF RaisedBy(outcome) # "none"
       THEN ReturnFailure(c, ExceptReturn(RaisedBy(outcome)), outcome, NoResponse)
       ELSE IF outcome.kind = "status"
            THEN ReturnFailure(c, StatusReturn(outcome.kind), outcome, NoResponse)
            ELSE /\ calls' = [calls EXCEPT ![c].pc = "repos",
                                           ![c].user_data = outcome.body]
                 /\ UNCHANGED <<GH_CACHE, ret, lastSuccess, lastFailed>>
    /\ UNCHANGED <<now, ticks, lastContact, analyzeVars, classified, unitVars>>

\* utils.py:396-438: the repository-list response arrives
FetchAsyncRepos(c, outcome) ==
    /\ calls[c].pc = "repos"
    /\ IF RaisedBy(outcome) # "none"
       THEN ReturnFailure(c, ExceptReturn(RaisedBy(outcome)),
                          [kind |-> "ok"], outcome)
       ELSE LET repos_data == IF outcome.kind = "ok" THEN outcome.body ELSE <<>>
                data == BuildStats(calls[c].username, calls[c].user_data,
                                   repos_data, now)
            IN  /\ GH_CACHE' = gh_cache_set(GH_CACHE, calls[c].username, data, now)
                /\ ret' = Returned("async", calls[c].url, NormalReturn(data),
                                   TRUE, 0, [kind |-> "ok"], outcome)
                /\ calls' = [calls EXCEPT ![c] = FreeCall]
                /\ lastSuccess' = [lastSuccess EXCEPT ![calls[c].username] = now]
                /\ UNCHANGED lastFailed
    /\ UNCHANGED <<now, ticks, lastContact, analyzeVars, classified, unitVars>>

\* utils.py:233-297: the body of the blocking variant after the prefix check
SyncResult(username, uo, ro, t) ==
    IF RaisedBy(uo) # "none" THEN ExceptReturn(RaisedBy(uo))
    ELSE IF uo.kind = "status" THEN StatusReturn(uo.kind)
    ELSE IF RaisedBy(ro) # "none" THEN ExceptReturn(RaisedBy(ro))
    ELSE NormalReturn(BuildStats(username, uo.body,
                                 IF ro.kind = "ok" THEN ro.body ELSE <<>>, t))

\* utils.py:226-297: the blocking variant, which has no cache
fetch_github_stats(github_url, uo, ro) ==
    /\ IF ~HasGithubPrefix(github_url) \/ ParseUsername(github_url) = ""
       THEN /\ uo = NoResponse
            /\ ret' = Returned("sync", github_url, NormalReturn(EmptyDict),
                               FALSE, 0, NoResponse, NoResponse)
       ELSE /\ uo # NoResponse
            /\ (ro = NoResponse) <=> (uo.kind # "ok")
            /\ ret' = Returned("sync", github_url,
                               SyncResult(ParseUsername(github_url), uo, ro, now),
                               TRUE, 0, uo, ro)
    /\ UNCHANGED <<GH_CACHE, now, ticks, calls, lastContact, lastSuccess, lastFailed,
                   analyzeVars, classified, unitVars>>

\* Twenty-four hours, in seconds of the clock.
Day == 24 * 60 * 60

TickSteps == {1, Day}

\* the clock advances
Tick(d) ==
    /\ ticks < MaxTicks
    /\ now' = now + d
    /\ ticks' = ticks + 1
    /\ UNCHANGED <<GH_CACHE, calls, ret, lastContact, lastSuccess, lastFailed,
                   analyzeVars, classified, unitVars>>

\* The fetcher at import time: an empty cache and no call made.
FetchIdle ==
    /\ GH_CACHE = <<>>
    /\ now = 0
    /\ ticks = 0
    /\ calls = [c \in CallIds |-> FreeCall]
    /\ ret = NoReturn
    /\ lastContact = [u \in Usernames |-> NoTime]
    /\ lastSuccess = [u \in Usernames |-> NoTime]
    /\ lastFailed = {}

\* No /analyze request has been received.
AnalyzeIdle ==
    /\ pc = "idle"
    /\ require_github = FALSE
    /\ total_q = 0
    /\ resumes = <<>>
    /\ github_tasks = <<>>
    /\ openai_calls = <<>>
    /\ openai_results = <<>>
    /\ results_out = <<>>

\* No grouping decision is being taken alone.
ClassifyIdle ==
    classified = [yes_count |-> 0, total_q |-> 0, require_github |-> FALSE,
                  has_github |-> FALSE, group |-> "", group_reason |-> ""]

\* No call of the matching model has been made.
NoLLMReturn ==
    [variant |-> "", model |-> "", timeout_s |-> 0, outcome |-> "",
     text |-> "", raised |-> "none", message |-> <<>>]

\* calculate_github_score has not been called.
NoScore == [called |-> FALSE, stats |-> <<>>, score |-> 0]

\* extract_github_links has not been called.
NoExtraction ==
    [called |-> FALSE, variant |-> "", text |-> "", given |-> <<>>, links |-> <<>>]

\* services/openai_service.py:28
window_duration == 60

\* services/openai_service.py:30: OPENAI_MAX_RPM, 3 unless the environment sets it
max_requests_per_window == 3

\* services/openai_service.py:32: OPENAI_BASE_DELAY, 21 unless the environment sets it
base_delay == 21

\* datetime.now().timestamp() when the service is constructed, in seconds
ConstructedAt == 1000

\* The coroutines that call _rate_limit of one service.
Coroutines == 1..MaxCoroutines

\* A coroutine that is not inside _rate_limit.
Outside == [at |-> "outside", now |-> 0, wake |-> 0]

\* services/openai_service.py:24-32: the service as constructed, at the
\* time of its construction, no call of _rate_limit begun
NewLimiter ==
    [last_request_time |-> 0,
     request_count |-> 0,
     window_start |-> ConstructedAt,
     clock |-> ConstructedAt,
     begun |-> 0,
     admitted |-> <<>>,
     co |-> [c \in Coroutines |-> Outside]]

\* analyze_resume has not been called.
NoAnalysis ==
    [at |-> "idle", file_name |-> "", attempt |-> 0, api_calls |-> 0,
     outcomes |-> <<>>, result |-> EmptyDict]

\* rank_resumes has not been called.
NoRanking ==
    [at |-> "idle", pdf_files |-> <<>>, i |-> 0, results |-> <<>>,
     ranked_candidates |-> <<>>, rejected_candidates |-> <<>>]

UnitsIdle ==
    /\ llm_ret = NoLLMReturn
    /\ scored = NoScore
    /\ extracted = NoExtraction
    /\ limiter = NewLimiter
    /\ analysis = NoAnalysis
    /\ ranking = NoRanking

InitFetch == FetchIdle /\ AnalyzeIdle /\ ClassifyIdle /\ UnitsIdle

\* Fetches for one account, racing with each other and with the clock.
NextFetch ==
    \/ \E c \in CallIds, u \in AccountUrls : FetchAsyncBegin(c, u)
    \/ \E c \in CallIds, o \in UserOutcomes : FetchAsyncUser(c, o)
    \/ \E c \in CallIds, o \in ReposOutcomes : FetchAsyncRepos(c, o)
    \/ \E d \in TickSteps : Tick(d)

SpecFetch == InitFetch /\ [][NextFetch]_vars

\* Both variants of the fetcher on URLs of every shape.
NextFetchUrls ==
    \/ \E c \in CallIds, u \in GithubUrls : FetchAsyncBegin(c, u)
    \/ \E c \in CallIds, o \in UserOutcomes : FetchAsyncUser(c, o)
    \/ \E c \in CallIds, o \in ReposOutcomes : FetchAsyncRepos(c, o)
    \/ \E u \in GithubUrls, uo \in UserOutcomes \cup {NoResponse} :
          \E ro \in (IF uo.kind = "ok" THEN ReposOutcomes ELSE {NoResponse}) :
             fetch_github_stats(u, uo, ro)

SpecFetchUrls == InitFetch /\ [][NextFetchUrls]_vars

\* The profile URLs of two accounts.
ProfileUrls == {"https://github.com/alice", "https://github.com/bob"}

\* One response of each course the fetcher distinguishes: a body, a status
\* other than 200, an exception.
CourseKinds == {"ok", "status", "timeout"}

\* Fetches for two accounts, racing with each other and with the clock.
NextFetchCache ==
    \/ \E c \in CallIds, u \in ProfileUrls : FetchAsyncBegin(c, u)
    \/ \E c \in CallIds, o \in {uo \in UserOutcomes : uo.kind \in CourseKinds} :
          FetchAsyncUser(c, o)
    \/ \E c \in CallIds, o \in {ro \in ReposOutcomes : ro.kind \in CourseKinds} :
          FetchAsyncRepos(c, o)
    \/ Tick(Day + 1)

SpecFetchCache == InitFetch /\ [][NextFetchCache]_vars

----------------------------------------------------------------------------
(* The call of the matching model: utils.py *)

\* The model names the callers pass (main.py:150, 375).
OpenAIModels == {"OPENAI_MODEL_CRITERIA", "OPENAI_MODEL_MATCH"}

\* The environment variable OPENAI_TIMEOUT: unset, a number, other text.
TimeoutEnvs ==
    { [set |-> FALSE, number |-> FALSE, value |-> 0],
      [set |-> TRUE,  number |-> TRUE,  value |-> 30],
      [set |-> TRUE,  number |-> FALSE, value |-> 0] }

\* utils.py:57-60
TimeoutSeconds(env) ==
    IF env.set /\ ~env.number THEN 60
    ELSE IF env.set THEN env.value ELSE 60

\* The subclasses of httpx.TimeoutException.
HttpxTimeouts == {"ConnectTimeout", "ReadTimeout", "WriteTimeout", "PoolTimeout"}

\* Transport errors of httpx that are no timeouts.
HttpxTransportErrors == {"ConnectError", "ReadError", "RemoteProtocolError"}

\* Status codes for which raise_for_status raises.
ErrorStatuses == {400, 401, 429, 500}

\* What a 200 response that lacks the expected body makes the code raise:
\* r.json() on text that is no JSON, ["choices"] or ["message"] missing,
\* an empty choices list.
BodyErrors == {"JSONDecodeError", "KeyError", "IndexError"}

\* The message content of a well-formed response.
Contents == {"{}", "sorry"}

\* How the HTTP exchange ends.
LLMOutcomes ==
    [kind : {"ok"}, exc : {"none"}, status : {200}, err_is_json : {TRUE},
     content : Contents]
    \cup [kind : {"raises"}, exc : HttpxTimeouts \cup HttpxTransportErrors,
          status : {0}, err_is_json : {FALSE}, content : {""}]
    \cup [kind : {"status"}, exc : {"HTTPStatusError"}, status : ErrorStatuses,
          err_is_json : BOOLEAN, content : {""}]
    \cup [kind : {"malformed"}, exc : BodyErrors, status : {200},
          err_is_json : {TRUE}, content : {""}]

\* The record of a call: what was asked, how the exchange ended, the text
\* returned, and the class and message of the exception raised ("none"
\* when the call returned).
LLMReturned(variant, model, timeout_s, o, text, raised, message) ==
    [variant |-> variant, model |-> model, timeout_s |-> timeout_s,
     outcome |-> o, text |-> text, raised |-> raised, message |-> message]

\* utils.py:45-74
call_openai_json(model, env, o) ==
    /\ llm_ret' =
          LET timeout_s == TimeoutSeconds(env)
          IN  IF o.kind = "ok"
              THEN LLMReturned("sync", model, timeout_s, o, o.content, "none", <<>>)
              ELSE IF o.exc \in HttpxTimeouts
              THEN LLMReturned("sync", model, timeout_s, o, "", "TimeoutError",
                               [text |-> "OpenAI request timed out after",
                                seconds |-> timeout_s])
              ELSE IF o.exc = "HTTPStatusError"
              THEN LLMReturned("sync", model, timeout_s, o, "", "RuntimeError",
                               [text |-> "OpenAI HTTP", status |-> o.status,
                                err |-> IF o.err_is_json THEN "json" ELSE "detail"])
              ELSE LLMReturned("sync", model, timeout_s, o, "", o.exc, <<>>)
    /\ UNCHANGED <<fetchVars, analyzeVars, classified, scored, extracted, serviceVars>>

\* utils.py:77-93: nothing is caught
call_openai_json_async(model, o) ==
    /\ llm_ret' =
          IF o.kind = "ok"
          THEN LLMReturned("async", model, 120, o, o.content, "none", <<>>)
          ELSE LLMReturned("async", model, 120, o, "", o.exc, <<>>)
    /\ UNCHANGED <<fetchVars, analyzeVars, classified, scored, extracted, serviceVars>>

NextLLM ==
    \/ \E m \in OpenAIModels, env \in TimeoutEnvs, o \in LLMOutcomes :
          call_openai_json(m, env, o)
    \/ \E m \in OpenAIModels, o \in LLMOutcomes : call_openai_json_async(m, o)

\* Calls of the matching model, one after another.
SpecLLM == InitFetch /\ [][NextLLM]_vars

----------------------------------------------------------------------------
(* The grouping rules of /analyze: main.py *)

CeilHalf_floor(n) == n \div 2

\* main.py:477: ceil(total_q / 2)
CeilHalf(n) == (n + 1) \div 2

GithubMissing_inverted(required, has) == required /\ has

\* main.py:468
GithubMissing(required, has) == required /\ ~has

\* main.py:471
NoneMet(yes) == yes = 0

AllMet_at_least(yes, total) == yes >= total

\* main.py:474
AllMet(yes, total) == yes = total

\* main.py:477
MajorityMet(yes, total) == yes >= CeilHalf(total)

Classify_all_first(yes, total, required, has) ==
    IF GithubMissing(required, has)
    THEN [group |-> "rejected",
          group_reason |-> "Rejected: GitHub missing and GitHub is required."]
    ELSE IF AllMet(yes, total)
    THEN [group |-> "strongly_consider",
          group_reason |-> "Strongly consider: all criteria were met."]
    ELSE IF NoneMet(yes)
    THEN [group |-> "rejected",
          group_reason |-> "Rejected: none of the criteria were met."]
    ELSE IF MajorityMet(yes, total)
    THEN [group |-> "potential_fit",
          group_reason |-> "Potential fit: majority of criteria were met."]
    ELSE [group |-> "rejected",
          group_reason |-> "Rejected: fewer than half of the criteria were met."]

\* main.py:466-482
Classify(yes, total, required, has) ==
    IF GithubMissing(required, has)
    THEN [group |-> "rejected",
          group_reason |-> "Rejected: GitHub missing and GitHub is required."]
    ELSE IF NoneMet(yes)
    THEN [group |-> "rejected",
          group_reason |-> "Rejected: none of the criteria were met."]
    ELSE IF AllMet(yes, total)
    THEN [group |-> "strongly_consider",
          group_reason |-> "Strongly consider: all criteria were met."]
    ELSE IF MajorityMet(yes, total)
    THEN [group |-> "potential_fit",
          group_reason |-> "Potential fit: majority of criteria were met."]
    ELSE [group |-> "rejected",
          group_reason |-> "Rejected: fewer than half of the criteria were met."]

\* The grouping decision taken alone, on any tally and any GitHub outcome.
InitClassify ==
    /\ FetchIdle
    /\ AnalyzeIdle
    /\ UnitsIdle
    /\ classified \in
          [yes_count : 0..(MaxCriteria + 1), total_q : 0..MaxCriteria,
           require_github : BOOLEAN, has_github : BOOLEAN,
           group : {""}, group_reason : {""}]

\* main.py:466-482
ClassifyStep ==
    /\ classified.group = ""
    /\ LET c == Classify(classified.yes_count, classified.total_q,
                         classified.require_github, classified.has_github)
       IN  classified' = [classified EXCEPT !.group = c.group,
                                            !.group_reason = c.group_reason]
    /\ UNCHANGED <<fetchVars, analyzeVars, unitVars>>

NextClassify == ClassifyStep

SpecClassify == InitClassify /\ [][NextClassify]_vars

----------------------------------------------------------------------------
(* Text helpers of utils.py *)

UpperChars == "ABCDEFGHIJKLMNOPQRSTUVWXYZ"

LowerChars == "abcdefghijklmnopqrstuvwxyz"

SlugChars == "abcdefghijklmnopqrstuvwxyz0123456789_"

\* the characters of a string
CharsOf(chars) == {SubSeq(chars, i, i) : i \in 1..Len(chars)}

UpperSet == CharsOf(UpperChars)

SlugSet == CharsOf(SlugChars)

\* str.lower
RECURSIVE lower(_)
lower(s) ==
    IF Len(s) = 0 THEN ""
    ELSE LET ch == SubSeq(s, 1, 1)
             lc == IF ch \in UpperSet
                   THEN LET i == CHOOSE k \in 1..Len(UpperChars) :
                                     SubSeq(UpperChars, k, k) = ch
                        IN  SubSeq(LowerChars, i, i)
                   ELSE ch
         IN  lc \o lower(SubSeq(s, 2, Len(s)))

\* str.endswith
endswith(s, p) ==
    Len(s) >= Len(p) /\ SubSeq(s, Len(s) - Len(p) + 1, Len(s)) = p

\* utils.py:23: re.sub(r"[^a-z0-9_]+", "_", s); inRun says the previous
\* character already belonged to the run being replaced
RECURSIVE SubRuns(_, _)
SubRuns(s, inRun) ==
    IF Len(s) = 0 THEN ""
    ELSE IF SubSeq(s, 1, 1) \in SlugSet
         THEN SubSeq(s, 1, 1) \o SubRuns(SubSeq(s, 2, Len(s)), FALSE)
         ELSE (IF inRun THEN "" ELSE "_") \o SubRuns(SubSeq(s, 2, Len(s)), TRUE)

\* str.strip("_")
RECURSIVE strip_(_)
strip_(s) ==
    IF Len(s) = 0 THEN ""
    ELSE IF SubSeq(s, 1, 1) = "_" THEN strip_(SubSeq(s, 2, Len(s)))
    ELSE IF SubSeq(s, Len(s), Len(s)) = "_" THEN strip_(SubSeq(s, 1, Len(s) - 1))
    ELSE s

\* utils.py:21-24
slugify(s) == strip_(SubRuns(lower(s), FALSE))

Min_larger(a, b) == IF a < b THEN b ELSE a

\* min(a, b)
Min(a, b) == IF a < b THEN a ELSE b

Completeness_without_repos(stats) ==
    (IF Get(stats, "bio", "") # "" THEN 2 ELSE 0)
    + (IF Get(stats, "company", "") # "" THEN 2 ELSE 0)
    + (IF Get(stats, "location", "") # "" THEN 2 ELSE 0)
    + (IF Get(stats, "blog", "") # "" THEN 2 ELSE 0)

\* utils.py:328-333
Completeness(stats) ==
    (IF Get(stats, "bio", "") # "" THEN 2 ELSE 0)
    + (IF Get(stats, "company", "") # "" THEN 2 ELSE 0)
    + (IF Get(stats, "location", "") # "" THEN 2 ELSE 0)
    + (IF Get(stats, "blog", "") # "" THEN 2 ELSE 0)
    + (IF Get(stats, "public_repos", 0) > 0 THEN 2 ELSE 0)

\* utils.py:305-334: the score before rounding, in hundredths of a point
ScoreHundredths(stats) ==
    40 * Min(Get(stats, "public_repos", 0), 50)
    + 5 * Min(Get(stats, "total_stars", 0), 500)
    + 15 * Min(Get(stats, "followers", 0), 100)
    + 100 * Min(Get(stats, "recent_activity", 0), 20)
    + 10 * Min(Get(stats, "total_forks", 0), 100)
    + 100 * Completeness(stats)

\* round(score, 1), from hundredths to tenths of a point.  A sum that lies
\* halfway between two tenths has no exact binary representation, and the
\* float that stands for it lies above the half for some sums (0.05 gives
\* 0.1) and below it for others (0.15 gives 0.1): half_up tells which.
round1(hundredths, half_up) ==
    IF hundredths % 10 = 5 /\ ~half_up
    THEN hundredths \div 10
    ELSE (hundredths + 5) \div 10

\* utils.py:300-336: the score in tenths of a point
calculate_github_score_of(stats, half_up) ==
    IF stats = EmptyDict THEN 0
    ELSE Min(round1(ScoreHundredths(stats), half_up), 1000)

\* The score of a record whose sum does not lie halfway between two tenths,
\* as are the sums of the records the requests of this model fetch.
calculate_github_score(stats) == calculate_github_score_of(stats, TRUE)

\* The statistics records scored alone: the empty record, a record without
\* any of the fields the score reads, and records whose counts lie at zero,
\* inside, at and beyond the caps.
ScoreInputs ==
    {EmptyDict, [username |-> "alice"]}
        \cup [public_repos    : {0, 1, 50, 51},
              total_stars     : {0, 1, 3, 500, 1000000},
              followers       : {0, 7, 100, 101},
              recent_activity : {0, 20, 21},
              total_forks     : {0, 100, 101},
              bio             : {"", "engineer"},
              company         : {"", "acme"},
              location        : {"", "Pune"},
              blog            : {"", "https://alice.dev"}]

\* utils.py:300-336: one call of calculate_github_score
Score(stats, half_up) ==
    /\ ~scored.called
    /\ scored' = [called |-> TRUE, stats |-> stats,
                  score |-> calculate_github_score_of(stats, half_up)]
    /\ UNCHANGED <<fetchVars, analyzeVars, classified, llm_ret, extracted, serviceVars>>

NextScore == \E stats \in ScoreInputs, half_up \in BOOLEAN : Score(stats, half_up)

\* One call of calculate_github_score, on any of the records.
SpecScore == InitFetch /\ [][NextScore]_vars

----------------------------------------------------------------------------
(* Extraction of GitHub profile links from text: utils.py *)

\* [A-Za-z0-9._-]
NameChars == "ABCDEFGHIJKLMNOPQRSTUVWXYZabcdefghijklmnopqrstuvwxyz0123456789._-"

NameSet == CharsOf(NameChars)

\* \w
WordSet == CharsOf("ABCDEFGHIJKLMNOPQRSTUVWXYZabcdefghijklmnopqrstuvwxyz0123456789_")

\* \s
SpaceSet == {" ", "\n", "\t"}

\* The characters of this model's texts, in code point order.
AsciiChars ==
    "\t\n \"'(),-./0123456789:;@ABCDEFGHIJKLMNOPQRSTUVWXYZ_abcdefghijklmnopqrstuvwxyz"

\* The character at position i, or no character beyond the ends.
CharAt(s, i) == IF i >= 1 /\ i <= Len(s) THEN SubSeq(s, i, i) ELSE ""

\* \b at position i: exactly one of the characters around it is a word character
WordBoundary(s, i) == (CharAt(s, i - 1) \in WordSet) # (CharAt(s, i) \in WordSet)

\* A literal of a pattern under re.IGNORECASE at position i: the position
\* after it, or 0 when the text differs.
Literal(s, i, lit) ==
    IF i >= 1 /\ i + Len(lit) - 1 <= Len(s) /\ lower(SubSeq(s, i, i + Len(lit) - 1)) = lit
    THEN i + Len(lit)
    ELSE 0

\* An optional literal, taken when present.
Opt(s, i, lit) == IF Literal(s, i, lit) # 0 THEN Literal(s, i, lit) ELSE i

\* The position after the longest run of characters of the set from i on.
RECURSIVE RunEnd(_, _, _)
RunEnd(s, i, set) == IF CharAt(s, i) \in set THEN RunEnd(s, i + 1, set) ELSE i

NoMatch == [end |-> 0, group |-> ""]

Max(S) == CHOOSE x \in S : \A y \in S : y <= x

\* ([A-Za-z0-9._-]+)(?:/|\b) from position i: the longest name after which
\* a slash or a word boundary follows
NameThenEdge(s, i) ==
    LET stop == RunEnd(s, i, NameSet)
        ends == {e \in (i + 1)..stop : CharAt(s, e) = "/" \/ WordBoundary(s, e)}
    IN  IF ends = {} THEN NoMatch
        ELSE [end   |-> IF CharAt(s, Max(ends)) = "/" THEN Max(ends) + 1 ELSE Max(ends),
              group |-> SubSeq(s, i, Max(ends) - 1)]

\* utils.py:119: https?://(?:www\.)?github\.com/([A-Za-z0-9._-]+)(?:/|\b)
FullUrlAt(s, i) ==
    LET a == Literal(s, i, "http")
        b == IF a = 0 THEN 0 ELSE Literal(s, Opt(s, a, "s"), "://")
        c == IF b = 0 THEN 0 ELSE Literal(s, Opt(s, b, "www."), "github.com/")
    IN  IF c = 0 THEN NoMatch ELSE NameThenEdge(s, c)

\* utils.py:125: \b(?:www\.)?github\.com/([A-Za-z0-9._-]+)(?:/|\b)
DomainAt(s, i) ==
    LET c == IF WordBoundary(s, i)
             THEN Literal(s, Opt(s, i, "www."), "github.com/")
             ELSE 0
    IN  IF c = 0 THEN NoMatch ELSE NameThenEdge(s, c)

\* utils.py:132: github:\s*([A-Za-z0-9._-]+)
LabelAt(s, i) ==
    LET a == Literal(s, i, "github:")
        b == RunEnd(s, a, SpaceSet)
        e == RunEnd(s, b, NameSet)
    IN  IF a = 0 \/ e = b THEN NoMatch
        ELSE [end |-> e, group |-> SubSeq(s, b, e - 1)]

\* utils.py:137: @([A-Za-z0-9._-]+)\s+(?:on\s+)?github\b
AtMentionAt(s, i) ==
    LET e == RunEnd(s, i + 1, NameSet)
        w == RunEnd(s, e, SpaceSet)
        o == Literal(s, w, "on")
        ow == IF o = 0 THEN 0 ELSE RunEnd(s, o, SpaceSet)
        g_on == IF o = 0 \/ ow = o THEN 0 ELSE Literal(s, ow, "github")
        g == IF g_on # 0 /\ WordBoundary(s, g_on) THEN g_on
             ELSE Literal(s, w, "github")
    IN  IF CharAt(s, i) # "@" \/ e = i + 1 \/ w = e \/ g = 0 THEN NoMatch
        ELSE IF ~WordBoundary(s, g) THEN NoMatch
        ELSE [end |-> g, group |-> SubSeq(s, i + 1, e - 1)]

\* [a-zA-Z0-9._-]+(?:/[a-zA-Z0-9._-]+)? from position i on: the position
\* after it, or 0 when no name starts at i
NameThenPath(s, i) ==
    LET e == RunEnd(s, i, NameSet)
        f == RunEnd(s, e + 1, NameSet)
    IN  IF e = i THEN 0
        ELSE IF CharAt(s, e) = "/" /\ f > e + 1 THEN f
        ELSE e

\* A pattern without a group: findall gives the text of the whole match.
WholeMatch(s, i, end) ==
    IF end = 0 THEN NoMatch ELSE [end |-> end, group |-> SubSeq(s, i, end - 1)]

\* services/gemini_service.py:76:
\* https://github\.com/[a-zA-Z0-9._-]+(?:/[a-zA-Z0-9._-]+)?
GeminiHttpsAt(s, i) ==
    LET c == Literal(s, i, "https://github.com/")
    IN  WholeMatch(s, i, IF c = 0 THEN 0 ELSE NameThenPath(s, c))

\* services/gemini_service.py:81: github\.com/[a-zA-Z0-9._-]+(?:/[a-zA-Z0-9._-]+)?
GeminiDomainAt(s, i) ==
    LET c == Literal(s, i, "github.com/")
    IN  WholeMatch(s, i, IF c = 0 THEN 0 ELSE NameThenPath(s, c))

\* services/gemini_service.py:88:
\* (?:github:\s*|@)([a-zA-Z0-9._-]+)(?:\s+(?:on\s+)?github)?
GeminiUsernameAt(s, i) ==
    LET a == Literal(s, i, "github:")
        b == IF a # 0 /\ RunEnd(s, RunEnd(s, a, SpaceSet), NameSet)
                            > RunEnd(s, a, SpaceSet)
             THEN RunEnd(s, a, SpaceSet)
             ELSE IF CharAt(s, i) = "@" THEN i + 1 ELSE 0
        e == RunEnd(s, b, NameSet)
        w == RunEnd(s, e, SpaceSet)
        o == Literal(s, w, "on")
        ow == IF o = 0 THEN 0 ELSE RunEnd(s, o, SpaceSet)
        g_on == IF o = 0 \/ ow = o THEN 0 ELSE Literal(s, ow, "github")
        g == IF w = e THEN 0
             ELSE IF g_on # 0 THEN g_on
             ELSE Literal(s, w, "github")
    IN  IF b = 0 \/ e = b THEN NoMatch
        ELSE [end |-> IF g # 0 THEN g ELSE e, group |-> SubSeq(s, b, e - 1)]

\* The four patterns of extract_github_links, in the order it applies them.
Patterns == <<"full_url", "domain", "label", "at_mention">>

MatchAt(s, i, pattern) ==
    CASE pattern = "full_url" -> FullUrlAt(s, i)
      [] pattern = "domain" -> DomainAt(s, i)
      [] pattern = "label" -> LabelAt(s, i)
      [] pattern = "at_mention" -> AtMentionAt(s, i)
      [] pattern = "gemini_https" -> GeminiHttpsAt(s, i)
      [] pattern = "gemini_domain" -> GeminiDomainAt(s, i)
      [] pattern = "gemini_username" -> GeminiUsernameAt(s, i)

\* re.findall with one group: the groups of the matches found from left to
\* right, each search starting where the previous match ended
RECURSIVE findall(_, _, _)
findall(pattern, s, i) ==
    IF i > Len(s) THEN <<>>
    ELSE IF MatchAt(s, i, pattern).end = 0 THEN findall(pattern, s, i + 1)
    ELSE <<MatchAt(s, i, pattern).group>>
            \o findall(pattern, s, MatchAt(s, i, pattern).end)

\* utils.py:114-116: segment.rstrip(').,;:\'\"')
RECURSIVE clean(_)
clean(segment) ==
    IF Len(segment) > 0 /\ SubSeq(segment, Len(segment), Len(segment))
                              \in {")", ".", ",", ";", ":", "'", "\""}
    THEN clean(SubSeq(segment, 1, Len(segment) - 1))
    ELSE segment

\* utils.py:108-112
reserved ==
    {"features", "topics", "collections", "trending", "marketplace", "about",
     "pricing", "sponsors", "apps", "login", "join", "settings", "organizations",
     "orgs", "enterprise", "security", "readme", "explore", "contact", "blog",
     "search", "customer-stories", "events", "site", "issues", "pulls"}

\* The elements of a sequence.
Range(seq) == {seq[i] : i \in DOMAIN seq}

\* utils.py:119-141: the names the four patterns add to the set usernames
usernames(text) ==
    {m \in {clean(g) : g \in UNION {Range(findall(Patterns[k], text, 1)) :
                                       k \in DOMAIN Patterns}} :
        Len(m) > 2 /\ lower(m) \notin reserved}

\* The place of a character in code point order.
Rank(ch) == CHOOSE k \in 1..Len(AsciiChars) : SubSeq(AsciiChars, k, k) = ch

\* a < b for strings
RECURSIVE StrLess(_, _)
StrLess(a, b) ==
    IF Len(b) = 0 THEN FALSE
    ELSE IF Len(a) = 0 THEN TRUE
    ELSE IF SubSeq(a, 1, 1) = SubSeq(b, 1, 1)
         THEN StrLess(SubSeq(a, 2, Len(a)), SubSeq(b, 2, Len(b)))
         ELSE Rank(SubSeq(a, 1, 1)) < Rank(SubSeq(b, 1, 1))

\* sorted(list(set(out)))
RECURSIVE sorted(_)
sorted(S) ==
    IF S = {} THEN <<>>
    ELSE LET least == CHOOSE x \in S : \A y \in S \ {x} : StrLess(x, y)
         IN  <<least>> \o sorted(S \ {least})

\* utils.py:96-147
extract_github_links(text) ==
    IF text = "" THEN <<>>
    ELSE sorted({"https://github.com/" \o u : u \in usernames(text)})

\* The mentions the texts of this model are made of: the surface forms of
\* one account and its name in another case, mentions of other accounts,
\* and mentions whose name breaks a rule for account names.
Mentions ==
    {"https://github.com/alice", "http://www.github.com/alice/repo",
     "github.com/alice", "GitHub: alice", "@alice on GitHub",
     "github.com/Alice",
     "https://github.com/bob-2/x.", "@bob-2", "carol@example.com",
     "github.com/admin", "github.com/api", "github.com/Settings",
     "github.com/-bad-", "github.com/a--b", "github.com/ab", "github.com/a_b.c"}

\* The mentions of a text, joined by single spaces.
RECURSIVE JoinMentions(_)
JoinMentions(ms) ==
    IF Len(ms) = 0 THEN ""
    ELSE IF Len(ms) = 1 THEN ms[1]
    ELSE ms[1] \o " " \o JoinMentions(Tail(ms))

\* utils.py:96-147: one call of extract_github_links, on the text made of
\* the given mentions
Extract(ms) ==
    /\ ~extracted.called
    /\ extracted' = [called |-> TRUE, variant |-> "utils", text |-> JoinMentions(ms),
                     given |-> ms, links |-> extract_github_links(JoinMentions(ms))]
    /\ UNCHANGED <<fetchVars, analyzeVars, classified, llm_ret, scored, serviceVars>>

\* link.count('/')
RECURSIVE CountSlashes(_)
CountSlashes(link) ==
    IF Len(link) = 0 THEN 0
    ELSE (IF SubSeq(link, 1, 1) = "/" THEN 1 ELSE 0)
            + CountSlashes(SubSeq(link, 2, Len(link)))

\* str.split('/')[0]
RECURSIVE FirstSegment(_)
FirstSegment(path) ==
    IF Len(path) = 0 \/ SubSeq(path, 1, 1) = "/" THEN ""
    ELSE SubSeq(path, 1, 1) \o FirstSegment(SubSeq(path, 2, Len(path)))

\* services/openai_service.py:140:
\* link.replace('https://github.com/', '').split('/')[0], for a link that
\* starts with the prefix and holds it once
link_username(link) ==
    IF Literal(link, 1, "https://github.com/") # 0
    THEN FirstSegment(SubSeq(link, Literal(link, 1, "https://github.com/"), Len(link)))
    ELSE FirstSegment(link)

\* One loop over normalized_links (services/openai_service.py:139-143 and
\* 144-148): a link is appended when its username was not seen, in the
\* first loop only when it is a profile link.
RECURSIVE unique_pass(_, _, _)
unique_pass(links, unique, profile_only) ==
    IF Len(links) = 0 THEN unique
    ELSE LET link == Head(links)
             seen_usernames == {link_username(unique[i]) : i \in DOMAIN unique}
             added == /\ link_username(link) \notin seen_usernames
                      /\ profile_only => CountSlashes(link) = 3
         IN  unique_pass(Tail(links),
                         IF added THEN Append(unique, link) ELSE unique,
                         profile_only)

unique_links_single_pass(normalized_links) ==
    unique_pass(normalized_links, <<>>, FALSE)

\* services/openai_service.py:137-149: the end of
\* ChatGPTService.extract_github_links
unique_links(normalized_links) ==
    unique_pass(normalized_links, unique_pass(normalized_links, <<>>, TRUE), FALSE)

\* The links that passed normalisation and validation in
\* ChatGPTService.extract_github_links: profile links and repository links.
NormalizedLinks ==
    {"https://github.com/alice", "https://github.com/alice/repo",
     "https://github.com/alice/other", "https://github.com/bob-2",
     "https://github.com/bob-2/x"}

LinkLists == UNION {[1..m -> NormalizedLinks] : m \in 0..MaxLinks}

\* services/openai_service.py:137-149: the duplicates are removed from one
\* list of normalised links
UniqueLinks(normalized_links) ==
    /\ ~extracted.called
    /\ extracted' = [called |-> TRUE, variant |-> "service", text |-> "",
                     given |-> normalized_links,
                     links |-> unique_links(normalized_links)]
    /\ UNCHANGED <<fetchVars, analyzeVars, classified, llm_ret, scored, serviceVars>>

\* str.strip()
RECURSIVE strip(_)
strip(s) ==
    IF Len(s) > 0 /\ SubSeq(s, 1, 1) \in SpaceSet THEN strip(SubSeq(s, 2, Len(s)))
    ELSE IF Len(s) > 0 /\ SubSeq(s, Len(s), Len(s)) \in SpaceSet
         THEN strip(SubSeq(s, 1, Len(s) - 1))
    ELSE s

\* str.strip('/')
RECURSIVE strip_slashes(_)
strip_slashes(s) ==
    IF Len(s) > 0 /\ SubSeq(s, 1, 1) = "/" THEN strip_slashes(SubSeq(s, 2, Len(s)))
    ELSE IF Len(s) > 0 /\ SubSeq(s, Len(s), Len(s)) = "/"
         THEN strip_slashes(SubSeq(s, 1, Len(s) - 1))
    ELSE s

\* str.rstrip('/')
RECURSIVE rstrip_slashes(_)
rstrip_slashes(s) ==
    IF Len(s) > 0 /\ SubSeq(s, Len(s), Len(s)) = "/"
    THEN rstrip_slashes(SubSeq(s, 1, Len(s) - 1))
    ELSE s

\* sub in s
Contains(s, sub) ==
    \E i \in 1..(Len(s) - Len(sub) + 1) : SubSeq(s, i, i + Len(sub) - 1) = sub

\* str.replace(old, new, 1) for an old the string starts with
ReplaceFirst(s, old, new) == new \o SubSeq(s, Len(old) + 1, Len(s))

\* services/openai_service.py:152-163: ChatGPTService._normalize_github_url
normalize_github_url(url) ==
    LET stripped == rstrip_slashes(strip(url))
        schemed == IF startswith(stripped, "http://") \/ startswith(stripped, "https://")
                   THEN stripped
                   ELSE "https://" \o stripped
        secured == IF startswith(schemed, "http://")
                   THEN ReplaceFirst(schemed, "http://", "https://")
                   ELSE schemed
        bare == replace(secured, "https://www.github.com/", "https://github.com/")
    IN  IF url = "" THEN ""
        ELSE IF ~Contains(bare, "github.com/") THEN ""
        ELSE bare

\* urlparse(url).scheme, for a URL with the scheme before its first colon
url_scheme(url) ==
    IF Contains(url, ":")
    THEN lower(SubSeq(url, 1, (CHOOSE i \in 1..Len(url) :
                                  /\ SubSeq(url, i, i) = ":"
                                  /\ \A j \in 1..(i - 1) : SubSeq(url, j, j) # ":") - 1))
    ELSE ""

\* What follows the scheme and its colon.
url_rest(url) ==
    IF url_scheme(url) = "" THEN url
    ELSE SubSeq(url, Len(url_scheme(url)) + 2, Len(url))

\* urlparse(url).hostname, for a URL without user, port, query or fragment;
\* the empty string stands for None
url_hostname(url) ==
    IF startswith(url_rest(url), "//")
    THEN lower(FirstSegment(SubSeq(url_rest(url), 3, Len(url_rest(url)))))
    ELSE ""

\* urlparse(url).path, for a URL without query or fragment
url_path(url) ==
    IF startswith(url_rest(url), "//")
    THEN SubSeq(url_rest(url),
                3 + Len(FirstSegment(SubSeq(url_rest(url), 3, Len(url_rest(url))))),
                Len(url_rest(url)))
    ELSE url_rest(url)

\* services/openai_service.py:176
service_reserved ==
    {"about", "account", "admin", "api", "apps", "assets", "blog", "business",
     "contact", "dashboard", "developer", "docs", "enterprise", "explore",
     "features", "gist", "help", "home", "join", "login", "logout", "marketplace",
     "new", "notifications", "organizations", "pricing", "privacy", "search",
     "security", "settings", "site", "support", "team", "terms", "topics",
     "trending", "users", "www"}

\* services/openai_service.py:165-192: ChatGPTService.is_valid_github_url
is_valid_github_url(url) ==
    LET path == strip_slashes(url_path(url))
        username == FirstSegment(path)
    IN  /\ url # ""
        /\ url_scheme(url) = "https"
        /\ url_hostname(url) = "github.com"
        /\ path # ""
        /\ lower(username) \notin service_reserved
        /\ \A i \in 1..Len(username) : SubSeq(username, i, i) \in NameSet \ {".", "_"}
        /\ ~startswith(username, "-")
        /\ ~endswith(username, "-")
        /\ ~Contains(username, "--")

\* services/openai_service.py:133-137: the links that normalise to a valid URL
RECURSIVE normalized_links_of(_)
normalized_links_of(github_links) ==
    IF Len(github_links) = 0 THEN <<>>
    ELSE LET normalized == normalize_github_url(Head(github_links))
         IN  (IF normalized # "" /\ is_valid_github_url(normalized)
              THEN <<normalized>> ELSE <<>>)
                \o normalized_links_of(Tail(github_links))

\* The links the patterns of ChatGPTService.extract_github_links find in a
\* text, before they are normalised.
GithubLinks ==
    {"https://github.com/alice", "http://www.github.com/alice/repo/",
     "https://github.com/alice/other", "www.github.com/bob-2",
     "https://github.com/admin", "https://github.com/a--b",
     "https://github.com/a.b", "https://github.com/ab"}

\* services/openai_service.py:133-150: the links found are normalised,
\* validated and freed of duplicates
ServiceLinks(github_links) ==
    /\ ~extracted.called
    /\ extracted' = [called |-> TRUE, variant |-> "service_found", text |-> "",
                     given |-> github_links,
                     links |-> unique_links(normalized_links_of(github_links))]
    /\ UNCHANGED <<fetchVars, analyzeVars, classified, llm_ret, scored, serviceVars>>

NextExtract ==
    \/ \E ms \in UNION {[1..m -> Mentions] : m \in 0..MaxMentions} : Extract(ms)
    \/ \E normalized_links \in LinkLists : UniqueLinks(normalized_links)
    \/ \E github_links \in UNION {[1..m -> GithubLinks] : m \in 0..MaxLinks} :
          ServiceLinks(github_links)

\* One extraction, by either implementation.
SpecExtract == InitFetch /\ [][NextExtract]_vars

\* services/gemini_service.py:73-92: the links the three patterns of
\* GeminiService.extract_github_links collect
gemini_github_links(text) ==
    Range(findall("gemini_https", text, 1))
        \cup {"https://" \o m : m \in Range(findall("gemini_domain", text, 1))}
        \cup {"https://github.com/" \o username :
                username \in {u \in Range(findall("gemini_username", text, 1)) :
                                 Len(u) > 2}}

\* The orders a list made from a set can have.
RECURSIVE Orders(_)
Orders(S) ==
    IF S = {} THEN {<<>>}
    ELSE UNION {{<<x>> \o rest : rest \in Orders(S \ {x})} : x \in S}

\* The mentions of the texts given to GeminiService.extract_github_links:
\* bare handles, an e-mail address, qualified mentions and URLs.
GeminiMentions ==
    {"@developer", "carol@example.com", "@alice on GitHub", "GitHub: alice",
     "https://github.com/alice", "http://github.com/alice/repo",
     "github.com/bob-2/x", "Twitter: @dev_1", "@al"}

\* services/gemini_service.py:71-95: one call of
\* GeminiService.extract_github_links; list(set(github_links)) has the links
\* in an order the hashing of the run decides
GeminiExtract(ms) ==
    /\ ~extracted.called
    /\ \E links \in Orders(gemini_github_links(JoinMentions(ms))) :
          extracted' = [called |-> TRUE, variant |-> "gemini",
                        text |-> JoinMentions(ms), given |-> ms, links |-> links]
    /\ UNCHANGED <<fetchVars, analyzeVars, classified, llm_ret, scored, serviceVars>>

NextExtractGemini ==
    \E ms \in UNION {[1..m -> GeminiMentions] : m \in 0..MaxMentions} :
        GeminiExtract(ms)

\* One extraction by GeminiService.
SpecExtractGemini == InitFetch /\ [][NextExtractGemini]_vars

----------------------------------------------------------------------------
(* The rate limiter of a service: ChatGPTService._rate_limit *)

\* services/openai_service.py:50-51: the request is admitted
Admit(l, c) ==
    [l EXCEPT !.request_count = l.request_count + 1,
              !.last_request_time = l.clock,
              !.admitted = Append(l.admitted, l.clock),
              !.co[c] = Outside]

\* services/openai_service.py:46-51: the minimum delay between requests,
\* measured from the time read on entry
Delay(l, c, now_) ==
    LET time_since_last == now_ - l.last_request_time
    IN  IF time_since_last < base_delay
        THEN [l EXCEPT !.co[c] = [at |-> "delay_sleep", now |-> now_,
                                  wake |-> l.clock + (base_delay - time_since_last)]]
        ELSE Admit(l, c)

\* services/openai_service.py:35-49: _rate_limit from its entry to its first
\* suspension, or to the end
rate_limit(c) ==
    LET now_ == limiter.clock
        expired == now_ - limiter.window_start >= window_duration
        l == [limiter EXCEPT !.begun = limiter.begun + 1,
                             !.request_count = IF expired THEN 0 ELSE limiter.request_count,
                             !.window_start = IF expired THEN now_ ELSE limiter.window_start]
        wait_time == window_duration - (now_ - l.window_start)
    IN  IF l.request_count >= max_requests_per_window /\ wait_time > 0
        THEN [l EXCEPT !.co[c] = [at |-> "window_sleep", now |-> now_,
                                  wake |-> l.clock + wait_time]]
        ELSE Delay(l, c, now_)

\* services/openai_service.py:34-51: a coroutine enters _rate_limit
RateLimitBegin(c) ==
    /\ limiter.co[c].at = "outside"
    /\ limiter.begun < MaxRateCalls
    /\ limiter' = rate_limit(c)
    /\ UNCHANGED <<fetchVars, analyzeVars, classified, llm_ret, scored, extracted,
                   analysis, ranking>>

\* services/openai_service.py:43-49: the sleep for the end of the window is
\* over; the count and the window start again
WindowWake(c) ==
    /\ limiter.co[c].at = "window_sleep"
    /\ limiter.clock >= limiter.co[c].wake
    /\ limiter' = Delay([limiter EXCEPT !.request_count = 0,
                                        !.window_start = limiter.clock],
                        c, limiter.co[c].now)
    /\ UNCHANGED <<fetchVars, analyzeVars, classified, llm_ret, scored, extracted,
                   analysis, ranking>>

\* services/openai_service.py:49-51: the sleep for the minimum delay is over
DelayWake(c) ==
    /\ limiter.co[c].at = "delay_sleep"
    /\ limiter.clock >= limiter.co[c].wake
    /\ limiter' = Admit(limiter, c)
    /\ UNCHANGED <<fetchVars, analyzeVars, classified, llm_ret, scored, extracted,
                   analysis, ranking>>

\* The times at which a sleeping coroutine is due.
WakeTimes ==
    {limiter.co[c].wake : c \in {d \in Coroutines : limiter.co[d].at # "outside"}}

\* Time passes: the minimum delay, or up to the time a sleeping coroutine
\* is due.
Pass ==
    /\ \E t \in {limiter.clock + base_delay} \cup {w \in WakeTimes : w > limiter.clock} :
          /\ t <= ConstructedAt + MaxElapsed
          /\ limiter' = [limiter EXCEPT !.clock = t]
    /\ UNCHANGED <<fetchVars, analyzeVars, classified, llm_ret, scored, extracted,
                   analysis, ranking>>

NextRateLimit ==
    \/ \E c \in Coroutines : RateLimitBegin(c)
    \/ \E c \in Coroutines : WindowWake(c)
    \/ \E c \in Coroutines : DelayWake(c)
    \/ Pass

\* Coroutines of one event loop call _rate_limit of one service.
SpecRateLimit == InitFetch /\ [][NextRateLimit]_vars

----------------------------------------------------------------------------
(* One resume sent to the model: ChatGPTService.analyze_resume *)

\* services/openai_service.py:278
max_retries == 5

\* The JSON objects the model answers with, by the keys rank_resumes reads.
LLMResults ==
    [candidateName : {"Alice"},
     githubUrl : {"https://github.com/alice", "http://github.com/alice"},
     group : {"Group 1: High potential", "Group 2: Silver medalist", "Group 3: Rejected"},
     isQualified : BOOLEAN,
     score : {40, 90},
     rejectionReason : {"", "No AI project."}]

\* What one call of chat.completions.create and the parsing of its answer
\* end with: the exception raised, by its HTTP status (0 without one) and
\* its message, or the value json.loads returns.
Raises(status, message) ==
    [ends |-> "raises", status |-> status, message |-> message, value |-> EmptyDict]

\* A JSON object that lacks keys of the format the prompt asks for.
IncompleteResult == [candidateName |-> "Alice", isQualified |-> TRUE]

ApiOutcomes ==
    {[ends |-> "returns", status |-> 200, message |-> "", value |-> r] :
        r \in LLMResults \cup {IncompleteResult}}
        \cup {Raises(429, "Error code: 429 - Rate limit reached for requests"),
              Raises(0, "Connection error."),
              Raises(400, "Error code: 400 - your messages resulted in 142953 tokens"),
              Raises(200, "Expecting ',' delimiter: line 1 column 430 (char 429)"),
              Raises(200, "Expecting value: line 1 column 1 (char 0)"),
              Raises(200, "list indices must be integers or slices, not str")}

\* services/openai_service.py:300
retries(msg) == Contains(lower(msg), "rate limit") \/ Contains(msg, "429")

\* services/openai_service.py:314-327
Fallback(file_name) ==
    [candidateName |-> "Processing Error",
     githubUrl |-> "",
     group |-> "Group 3: Rejected",
     isQualified |-> FALSE,
     score |-> 0,
     rejectionReason |-> "Failed to process resume.",
     fileName |-> file_name]

\* services/openai_service.py:296
WithFileName(result, file_name) ==
    [key \in DOMAIN result \cup {"fileName"} |->
        IF key = "fileName" THEN file_name ELSE result[key]]

FileNames == {"alice.pdf", "bob.pdf"}

\* services/openai_service.py:194-280: analyze_resume is called on a service
\* that admits the request at once, and reaches its first attempt
AnalyzeResumeBegin(file_name) ==
    /\ analysis.at = "idle"
    /\ rate_limit(1).co[1].at = "outside"
    /\ limiter' = rate_limit(1)
    /\ analysis' = [at |-> "attempt", file_name |-> file_name, attempt |-> 0,
                    api_calls |-> 0, outcomes |-> <<>>, result |-> EmptyDict]
    /\ UNCHANGED <<fetchVars, analyzeVars, classified, llm_ret, scored, extracted, ranking>>

\* services/openai_service.py:280-327: one pass of the retry loop
ApiAttempt(outcome) ==
    /\ analysis.at = "attempt"
    /\ LET tried == [analysis EXCEPT !.api_calls = analysis.api_calls + 1,
                                     !.outcomes = Append(analysis.outcomes, outcome)]
       IN  analysis' =
              IF outcome.ends = "returns"
              THEN [tried EXCEPT !.at = "returned",
                                 !.result = WithFileName(outcome.value, analysis.file_name)]
              ELSE IF retries(outcome.message) /\ analysis.attempt + 1 < max_retries
              THEN [tried EXCEPT !.attempt = analysis.attempt + 1]
              ELSE [tried EXCEPT !.at = "returned",
                                 !.result = Fallback(analysis.file_name)]
    /\ UNCHANGED <<fetchVars, analyzeVars, classified, llm_ret, scored, extracted,
                   limiter, ranking>>

NextAnalyzeResume ==
    \/ \E file_name \in FileNames : AnalyzeResumeBegin(file_name)
    \/ \E outcome \in ApiOutcomes : ApiAttempt(outcome)

\* One call of analyze_resume on a new service.
SpecAnalyzeResume == InitFetch /\ [][NextAnalyzeResume]_vars

----------------------------------------------------------------------------
(* The resumes of an archive: ChatGPTService.rank_resumes *)

\* services/openai_service.py:43-45 and 49-51: _rate_limit called by one
\* coroutine alone runs from a sleep to its end when the sleep is over
rate_limit_woken(l, c) ==
    LET due == [l EXCEPT !.clock = l.co[c].wake]
        after_window ==
            IF l.co[c].at = "window_sleep"
            THEN Delay([due EXCEPT !.request_count = 0, !.window_start = due.clock],
                       c, l.co[c].now)
            ELSE l
    IN  IF after_window.co[c].at = "delay_sleep"
        THEN Admit([after_window EXCEPT !.clock = after_window.co[c].wake], c)
        ELSE after_window

\* services/openai_service.py:194-327: what analyze_resume returns for a
\* file of the name
AnalyzeResumeReturns(file_name) ==
    {WithFileName(r, file_name) : r \in LLMResults \cup {IncompleteResult}}
        \cup {Fallback(file_name)}

\* The PDF files found in the archive: the i-th by its name, the text read
\* from it and the links the patterns of extract_github_links find in it.
PdfNames == <<"a.pdf", "b.pdf", "c.pdf", "d.pdf">>

PdfContents ==
    {[resume_text |-> "", found |-> <<>>],
     [resume_text |-> "resume", found |-> <<>>],
     [resume_text |-> "resume", found |-> <<"https://github.com/admin">>],
     [resume_text |-> "resume", found |-> <<"www.github.com/bob-2">>]}

PdfFileLists ==
    UNION {[1..m -> PdfContents] : m \in 0..MaxPdfFiles}

\* services/openai_service.py:365-370, 375-380 and 406-411
RejectedCandidate(name, reason, file_name) ==
    [name |-> name, reason |-> reason, file_name |-> file_name]

\* services/openai_service.py:387-399
Candidate(result, file_name) ==
    [name |-> result.candidateName, github_url |-> result.githubUrl,
     group |-> result.group, score |-> result.score, file_name |-> file_name]

\* The keys of the result that rank_resumes reads.
KeysRead(result) ==
    IF result.isQualified
    THEN {"githubUrl", "isQualified", "group", "candidateName", "score", "rejectionReason"}
    ELSE {"githubUrl", "isQualified", "candidateName", "rejectionReason"}

IsRanked_any_group(result) ==
    result.isQualified /\ is_valid_github_url(result.githubUrl)

\* services/openai_service.py:384-386
IsRanked(result) ==
    /\ result.isQualified
    /\ is_valid_github_url(result.githubUrl)
    /\ result.group \in {"Group 1: High potential", "Group 2: Silver medalist"}

\* services/openai_service.py:401-405
RejectionReason(result) ==
    IF result.isQualified /\ ~is_valid_github_url(result.githubUrl)
    THEN "Invalid or malformed GitHub URL found."
    ELSE IF result.rejectionReason = "" THEN "No valid GitHub profile found."
    ELSE result.rejectionReason

\* list.sort(key=lambda x: x.score, reverse=True): stable, highest first
RECURSIVE sort_by_score(_)
sort_by_score(candidates) ==
    IF Len(candidates) = 0 THEN <<>>
    ELSE LET first == Head(candidates)
             rest == sort_by_score(Tail(candidates))
             before == {k \in DOMAIN rest : rest[k].score > first.score}
         IN  SubSeq(rest, 1, Cardinality(before)) \o <<first>>
                \o SubSeq(rest, Cardinality(before) + 1, Len(rest))

\* services/openai_service.py:329-359: rank_resumes has found the PDF files
\* of the archive
RankResumesBegin(pdf_files) ==
    /\ ranking.at = "idle"
    /\ ranking' = [at |-> "files", pdf_files |-> pdf_files, i |-> 1, results |-> <<>>,
                   ranked_candidates |-> <<>>, rejected_candidates |-> <<>>]
    /\ UNCHANGED <<fetchVars, analyzeVars, classified, llm_ret, scored, extracted,
                   limiter, analysis>>

\* services/openai_service.py:360-381: a file without text, or without a
\* GitHub link, is rejected without a call of the model
RankFileWithoutCall ==
    /\ ranking.at = "files"
    /\ ranking.i <= Len(ranking.pdf_files)
    /\ LET pdf == ranking.pdf_files[ranking.i]
           file_name == PdfNames[ranking.i]
           github_links == unique_links(normalized_links_of(pdf.found))
       IN  /\ strip(pdf.resume_text) = "" \/ github_links = <<>>
           /\ ranking' =
                 [ranking EXCEPT
                    !.i = ranking.i + 1,
                    !.results = Append(ranking.results, EmptyDict),
                    !.rejected_candidates =
                        Append(ranking.rejected_candidates,
                               RejectedCandidate("Unknown Candidate",
                                   IF strip(pdf.resume_text) = ""
                                   THEN "Could not extract text from PDF"
                                   ELSE "No valid GitHub profile found.",
                                   file_name))]
    /\ UNCHANGED <<fetchVars, analyzeVars, classified, llm_ret, scored, extracted,
                   limiter, analysis>>

\* services/openai_service.py:360-411: a file with text and a GitHub link is
\* sent to the model and placed by the result; a result without a key that
\* is read ends the call with a KeyError
RankFile ==
    /\ ranking.at = "files"
    /\ ranking.i <= Len(ranking.pdf_files)
    /\ strip(ranking.pdf_files[ranking.i].resume_text) # ""
    /\ unique_links(normalized_links_of(ranking.pdf_files[ranking.i].found)) # <<>>
    /\ limiter' = rate_limit_woken(rate_limit(1), 1)
    /\ \E result \in AnalyzeResumeReturns(PdfNames[ranking.i]) :
          LET file_name == PdfNames[ranking.i]
              placed == [ranking EXCEPT !.results = Append(ranking.results, result)]
          IN  ranking' =
                 IF ~(KeysRead(result) \subseteq DOMAIN result)
                 THEN [placed EXCEPT !.at = "raised"]
                 ELSE IF IsRanked(result)
                 THEN [placed EXCEPT
                         !.i = ranking.i + 1,
                         !.ranked_candidates =
                             Append(ranking.ranked_candidates, Candidate(result, file_name))]
                 ELSE [placed EXCEPT
                         !.i = ranking.i + 1,
                         !.rejected_candidates =
                             Append(ranking.rejected_candidates,
                                    RejectedCandidate(result.candidateName,
                                                      RejectionReason(result), file_name))]
    /\ UNCHANGED <<fetchVars, analyzeVars, classified, llm_ret, scored, extracted, analysis>>

\* services/openai_service.py:412-413: the ranked list is sorted and both
\* lists are returned
RankResumesReturn ==
    /\ ranking.at = "files"
    /\ ranking.i > Len(ranking.pdf_files)
    /\ ranking' = [ranking EXCEPT
                     !.at = "returned",
                     !.ranked_candidates = sort_by_score(ranking.ranked_candidates)]
    /\ UNCHANGED <<fetchVars, analyzeVars, classified, llm_ret, scored, extracted,
                   limiter, analysis>>

NextRankResumes ==
    \/ \E pdf_files \in PdfFileLists : RankResumesBegin(pdf_files)
    \/ RankFileWithoutCall
    \/ RankFile
    \/ RankResumesReturn

\* One call of rank_resumes on a new service.
SpecRankResumes == InitFetch /\ [][NextRankResumes]_vars

----------------------------------------------------------------------------
(* Links of the annotations of a PDF: utils.extract_pdf_links_from_bytes *)

\* An annotation: whether its object resolves, its /Subtype, the /S of its
\* /A (empty without an action), its /URI and whether that is a str.
Annotation(resolves, subtype, action, uri, is_str) ==
    [item |-> "annotation", resolves |-> resolves, subtype |-> subtype,
     action |-> action, uri |-> uri, is_str |-> is_str]

\* The beginning of the next page; an unreadable page raises when its
\* annotations are read.
NextPage(readable) ==
    [item |-> IF readable THEN "page" ELSE "unreadable_page", resolves |-> TRUE,
     subtype |-> "", action |-> "", uri |-> "", is_str |-> TRUE]

\* What the pages of this model's documents are made of.
PdfItems ==
    {Annotation(TRUE, "/Link", "/URI", "https://github.com/alice", TRUE),
     Annotation(TRUE, "/Link", "/URI", " https://github.com/alice\n", TRUE),
     Annotation(TRUE, "/Link", "/URI", "https://github.com/bob-2/x", TRUE),
     Annotation(TRUE, "/Link", "/URI", "https://github.com/alice", FALSE),
     Annotation(TRUE, "/Link", "/GoTo", "", TRUE),
     Annotation(TRUE, "/Widget", "/URI", "https://example.com/form", TRUE),
     Annotation(FALSE, "/Link", "/URI", "https://github.com/carol", TRUE),
     NextPage(TRUE), NextPage(FALSE)}

\* The documents: bytes PdfReader cannot parse, or the items of the pages
\* in reading order, the first page being readable.
Pdfs ==
    {[parses |-> FALSE, items |-> <<>>]}
        \cup {[parses |-> TRUE, items |-> items] :
                items \in UNION {[1..m -> PdfItems] : m \in 0..MaxPdfItems}}

\* utils.py:211-218: the annotation adds its URI to links
AddsLink(a) ==
    /\ a.item = "annotation"
    /\ a.resolves
    /\ a.subtype = "/Link"
    /\ a.action = "/URI"
    /\ a.is_str

\* utils.py:207-220: the loops over the pages and their annotations
RECURSIVE pdf_links(_)
pdf_links(items) ==
    IF Len(items) = 0 THEN <<>>
    ELSE (IF AddsLink(Head(items)) THEN <<strip(Head(items).uri)>> ELSE <<>>)
            \o pdf_links(Tail(items))

\* list(dict.fromkeys(links))
RECURSIVE fromkeys(_, _)
fromkeys(links, kept) ==
    IF Len(links) = 0 THEN kept
    ELSE fromkeys(Tail(links),
                  IF Head(links) \in Range(kept) THEN kept
                  ELSE Append(kept, Head(links)))

\* PdfReader or a page of the document raises.
PdfRaises(pdf) ==
    \/ ~pdf.parses
    \/ \E i \in DOMAIN pdf.items : pdf.items[i].item = "unreadable_page"

extract_pdf_links_from_bytes_unguarded(pdf) ==
    IF PdfRaises(pdf) THEN [raised |-> TRUE, links |-> <<>>]
    ELSE [raised |-> FALSE, links |-> fromkeys(pdf_links(pdf.items), <<>>)]

\* utils.py:201-223
extract_pdf_links_from_bytes(pdf) ==
    IF PdfRaises(pdf) THEN [raised |-> FALSE, links |-> <<>>]
    ELSE [raised |-> FALSE, links |-> fromkeys(pdf_links(pdf.items), <<>>)]

\* utils.py:201-223: one call of extract_pdf_links_from_bytes
HarvestPdf(pdf) ==
    /\ ~extracted.called
    /\ extracted' = [called |-> TRUE, variant |-> "pdf", text |-> "", given |-> pdf,
                     raised |-> extract_pdf_links_from_bytes(pdf).raised,
                     links |-> extract_pdf_links_from_bytes(pdf).links]
    /\ UNCHANGED <<fetchVars, analyzeVars, classified, llm_ret, scored, serviceVars>>

NextPdf == \E pdf \in Pdfs : HarvestPdf(pdf)

\* One document is searched for links.
SpecPdf == InitFetch /\ [][NextPdf]_vars

----------------------------------------------------------------------------
(* The /analyze endpoint: main.py *)

\* The uploaded files: the name, the profile URLs extract_github_links finds
\* in the visible text, and those it finds in the link annotations.
Uploads ==
    { [filename   |-> "alice.pdf",
       text_links |-> <<"https://github.com/alice">>,
       pdf_links  |-> <<"https://github.com/adam", "https://github.com/alice">>],
      [filename   |-> "Bob.PDF",
       text_links |-> <<>>,
       pdf_links  |-> <<"https://github.com/bob">>],
      [filename   |-> "none.txt",
       text_links |-> <<>>,
       pdf_links  |-> <<>>] }

\* One file, or two distinct files, in one request.
UploadBatches ==
    {<<a>> : a \in Uploads}
        \cup {p \in Uploads \X Uploads : p[1] # p[2]}

\* main.py:242-247: order-preserving union
RECURSIVE Dedup(_, _)
Dedup(urls, seen) ==
    IF urls = <<>> THEN <<>>
    ELSE IF Head(urls) \in seen THEN Dedup(Tail(urls), seen)
    ELSE <<Head(urls)>> \o Dedup(Tail(urls), seen \cup {Head(urls)})

\* main.py:224-240: the links of the annotations, read from a PDF only
gh_pdf_links(upload) ==
    IF endswith(lower(upload.filename), ".pdf") THEN upload.pdf_links ELSE <<>>

GhLinks_pdf_first(upload) == Dedup(gh_pdf_links(upload) \o upload.text_links, {})

\* main.py:221-248: the candidates of one file, visible text first
GhLinks(upload) == Dedup(upload.text_links \o gh_pdf_links(upload), {})

\* The last of a set of indices: the assignment that a dictionary keeps.
Last(indices) == CHOOSE i \in indices : \A j \in indices : j <= i

\* main.py:214: slugify(filename) -> filename, a later file replacing an earlier
resume_id_map ==
    [g \in {resumes[i].slug : i \in DOMAIN resumes} |->
        resumes[Last({i \in DOMAIN resumes : resumes[i].slug = g})].id]

\* main.py:216-248
gh_links_map ==
    [id \in {resumes[i].id : i \in DOMAIN resumes} |->
        resumes[Last({i \in DOMAIN resumes : resumes[i].id = id})].gh_links]

SkipsOpenAI_never(rg, r) == FALSE

\* main.py:265-279
SkipsOpenAI(rg, r) == rg /\ ~(Len(r.gh_links) > 0)

resumes_for_openai == SelectSeq(resumes, LAMBDA r : ~SkipsOpenAI(require_github, r))

resumes_without_github == SelectSeq(resumes, LAMBDA r : SkipsOpenAI(require_github, r))

\* What the task of one resume can end with: a dictionary returned by
\* fetch_github_stats_async (utils.py:367-438), empty or the statistics of
\* the account, or an exception when the task was cancelled.
TaskOutcomes(github_url) ==
    {[kind |-> "dict", value |-> EmptyDict],
     [kind |-> "exception", value |-> EmptyDict]}
        \cup {[kind |-> "dict",
               value |-> BuildStats(ParseUsername(github_url), ud, rd, now)] :
                 ud \in UserDatas, rd \in ReposDatas}

NoOutcome == [kind |-> "pending", value |-> EmptyDict]

\* main.py:366-367: the ids of the RESUMES array of the prompt
PromptIds(for_openai) == [i \in DOMAIN for_openai |-> for_openai[i].id]

\* main.py:169-283 and 384-388: the request up to the matching call
AnalyzeStart(rg, n, batch) ==
    /\ pc = "idle"
    /\ LET rs == [i \in DOMAIN batch |->
                    [id |-> batch[i].filename,
                     slug |-> slugify(batch[i].filename),
                     gh_text_links |-> batch[i].text_links,
                     gh_pdf_links |-> gh_pdf_links(batch[i]),
                     gh_links |-> GhLinks(batch[i])]]
           withLinks == SelectSeq(rs, LAMBDA r : Len(r.gh_links) > 0)
       IN  /\ require_github' = rg
           /\ total_q' = n
           /\ resumes' = rs
           /\ github_tasks' = [i \in DOMAIN withLinks |->
                                 [rid |-> withLinks[i].id,
                                  url |-> withLinks[i].gh_links[1],
                                  result |-> NoOutcome,
                                  finished |-> 0]]
           /\ IF \E i \in DOMAIN rs : ~SkipsOpenAI(rg, rs[i])
              THEN /\ pc' = "openai"
                   /\ openai_results' = EmptyDict
                   /\ openai_calls' =
                         <<PromptIds(SelectSeq(rs, LAMBDA r : ~SkipsOpenAI(rg, r)))>>
              ELSE /\ pc' = "gather"
                   /\ openai_results' = [results |-> <<>>]
                   /\ openai_calls' = <<>>
    /\ UNCHANGED <<results_out, fetchVars, classified, unitVars>>

\* The number of tasks that have finished.
FinishedCount ==
    Cardinality({i \in DOMAIN github_tasks : github_tasks[i].result # NoOutcome})

\* A statistics task finishes while the request is suspended; finished
\* records its place in the order of completion.
TaskFinish ==
    /\ pc \in {"openai", "gather", "error"}
    /\ \E i \in DOMAIN github_tasks :
          /\ github_tasks[i].result = NoOutcome
          /\ \E outcome \in TaskOutcomes(github_tasks[i].url) :
                github_tasks' = [github_tasks EXCEPT
                                    ![i].result = outcome,
                                    ![i].finished = FinishedCount + 1]
    /\ UNCHANGED <<pc, require_github, total_q, resumes, openai_calls, openai_results,
                   results_out, fetchVars, classified, unitVars>>

\* An answer list of the given length whose first yes entries say yes, the
\* very first one capitalised.
AnswerList(len, yes) ==
    [i \in 1..len |->
        [criterion_id |-> i,
         answer |-> IF i > yes THEN "no" ELSE IF i = 1 THEN "Yes" ELSE "yes"]]

\* The answer lists a reply carries for n questions: none met, one met
\* (which is all of them when there is one question), and one yes more than
\* there are questions.
AnswerLists(n) ==
    {AnswerList(n, 0), AnswerList(n, Min(1, n)), AnswerList(n + 1, n + 1)}

\* The resume ids a reply carries: the ids of the request, their lower-case
\* spelling, and the empty id.
ReplyIds ==
    {resumes[i].id : i \in DOMAIN resumes}
        \cup {lower(resumes[i].id) : i \in DOMAIN resumes} \cup {""}

ReplyEntries ==
    [resume_id : ReplyIds, answers : AnswerLists(total_q)]

\* An entry of a reply that names the first resume of the request and
\* carries no answers key: valid JSON that does not follow the schema of the
\* prompt.
EntriesWithoutAnswers ==
    {[resume_id |-> resumes[i].id] : i \in DOMAIN resumes \cap {1}}

\* The JSON objects the matching call returns: with a results list of up to
\* MaxResults entries, or without one.
Replies ==
    {[results |-> es] :
        es \in UNION {[1..m -> ReplyEntries \cup EntriesWithoutAnswers] :
                         m \in 0..MaxResults}}
        \cup {EmptyDict}

\* main.py:375-376: the matching call returns and its text parses
OpenAIReturn ==
    /\ pc = "openai"
    /\ \E reply \in Replies : openai_results' = reply
    /\ pc' = "gather"
    /\ UNCHANGED <<require_github, total_q, resumes, github_tasks, openai_calls, results_out,
                   fetchVars, classified, unitVars>>

OpenAIRaise_retried ==
    /\ pc = "openai"
    /\ IF Len(openai_calls) < 2
       THEN pc' = "openai" /\ openai_calls' = openai_calls \o openai_calls
       ELSE pc' = "error" /\ UNCHANGED openai_calls
    /\ UNCHANGED <<require_github, total_q, resumes, github_tasks, openai_results,
                   results_out, fetchVars, classified, unitVars>>

\* main.py:375-376: the matching call raises, or json.loads does; nothing
\* in analyze catches it
OpenAIRaise ==
    /\ pc = "openai"
    /\ pc' = "error"
    /\ UNCHANGED <<require_github, total_q, resumes, github_tasks, openai_calls, openai_results,
                   results_out, fetchVars, classified, unitVars>>

github_stats_map_by_completion ==
    [rid \in {github_tasks[i].rid : i \in DOMAIN github_tasks} |->
        LET n == Last({i \in DOMAIN github_tasks : github_tasks[i].rid = rid})
            j == CHOOSE i \in DOMAIN github_tasks : github_tasks[i].finished = n
            res == github_tasks[j].result
        IN  IF res.kind = "dict" THEN res.value ELSE EmptyDict]

\* main.py:435-442: what gather hands back, keyed by resume id
github_stats_map ==
    [rid \in {github_tasks[i].rid : i \in DOMAIN github_tasks} |->
        LET res == github_tasks[Last({i \in DOMAIN github_tasks :
                                            github_tasks[i].rid = rid})].result
        IN  IF res.kind = "dict" THEN res.value ELSE EmptyDict]

HasValidGithub_unchecked(found, github_stats) == found

\* main.py:452 and 461-464: links were found and their statistics are not empty
HasValidGithub(found, github_stats) == found /\ github_stats # EmptyDict

\* main.py:445-507: the result built for one entry of the reply
ResultFor(r) ==
    LET rid_raw == Get(r, "resume_id", "")
        rid == Get(resume_id_map, slugify(rid_raw), rid_raw)
        answers == Get(r, "answers", <<>>)
        yes_count == Cardinality({i \in DOMAIN answers :
                                     lower(Get(answers[i], "answer", "")) = "yes"})
        gh_links == Get(gh_links_map, rid, <<>>)
        found == Len(gh_links) > 0
        github_stats == IF found THEN Get(github_stats_map, rid, EmptyDict)
                        ELSE EmptyDict
        has_github == HasValidGithub(found, github_stats)
        c == Classify(yes_count, total_q, require_github, has_github)
    IN  [resume_id |-> rid,
         answers |-> answers,
         yes_count |-> yes_count,
         no_count |-> total_q - yes_count,
         has_github |-> has_github,
         github_url |-> IF has_github THEN gh_links[1] ELSE "",
         github_candidates |-> gh_links,
         github_stats |-> github_stats,
         github_score |-> IF has_github THEN calculate_github_score(github_stats)
                          ELSE 0,
         group |-> c.group,
         group_reason |-> c.group_reason]

\* main.py:512-547: the result of a resume that was kept from the matching call
SkippedResult(resume_data) ==
    [resume_id |-> resume_data.id,
     answers |-> [i \in 1..total_q |-> [criterion_id |-> i, answer |-> "no"]],
     yes_count |-> 0,
     no_count |-> total_q,
     has_github |-> FALSE,
     github_url |-> "",
     github_candidates |-> <<>>,
     github_stats |-> EmptyDict,
     github_score |-> 0,
     group |-> "rejected",
     group_reason |-> "Rejected: GitHub missing and GitHub is required."]

Gather_without_return_exceptions ==
    /\ pc = "gather"
    /\ \A i \in DOMAIN github_tasks : github_tasks[i].result # NoOutcome
    /\ LET entries == Get(openai_results, "results", <<>>)
           raised == \E i \in DOMAIN github_tasks :
                         github_tasks[i].result.kind = "exception"
       IN  /\ results_out' =
                 IF raised THEN <<>>
                 ELSE [i \in DOMAIN entries |-> ResultFor(entries[i])]
                         \o [i \in DOMAIN resumes_without_github |->
                                SkippedResult(resumes_without_github[i])]
           /\ pc' = IF raised THEN "error" ELSE "done"
    /\ UNCHANGED <<require_github, total_q, resumes, github_tasks, openai_calls, openai_results,
                   fetchVars, classified, unitVars>>

\* main.py:434-550: every task has finished; the results are assembled
Gather ==
    /\ pc = "gather"
    /\ \A i \in DOMAIN github_tasks : github_tasks[i].result # NoOutcome
    /\ LET entries == Get(openai_results, "results", <<>>)
       IN  results_out' =
              [i \in DOMAIN entries |-> ResultFor(entries[i])]
                 \o [i \in DOMAIN resumes_without_github |->
                        SkippedResult(resumes_without_github[i])]
    /\ pc' = "done"
    /\ UNCHANGED <<require_github, total_q, resumes, github_tasks, openai_calls, openai_results,
                   fetchVars, classified, unitVars>>

Init == FetchIdle /\ AnalyzeIdle /\ ClassifyIdle /\ UnitsIdle

\* One /analyze request.
Next ==
    \/ \E rg \in BOOLEAN, n \in 0..MaxQuestions, batch \in UploadBatches :
          AnalyzeStart(rg, n, batch)
    \/ TaskFinish
    \/ OpenAIReturn
    \/ OpenAIRaise
    \/ Gather

Spec == Init /\ [][Next]_vars

----------------------------------------------------------------------------
(* Properties of the statistics fetcher *)

ExceptionKinds == {"error", "timeout", "badjson"}

\* A step in which a coroutine sends the user-record request for username u.
BeginsFetch(u) ==
    \E c \in CallIds :
        /\ calls[c].pc = "free"
        /\ calls'[c].pc = "user"
        /\ calls'[c].username = u

\* A step in which the coroutine of slot c returns to its caller.
AsyncReturns(c) == calls[c].pc # "free" /\ calls'[c].pc = "free"

\* r is a return that was answered by the cache.
ServedFromCache(r) ==
    r.variant = "async" /\ ~r.contacted /\ r.value # EmptyDict

\* A step in which a call for username u is answered by the cache.
ServesNow(u) ==
    /\ ret' # ret
    /\ ServedFromCache(ret')
    /\ ret'.value.username = u

\* r is the return of a fetch whose user-record request did not succeed or
\* one of whose requests raised.
FailureCause(r) ==
    \/ r.user \in ExceptionKinds \cup {"status"}
    \/ r.repos \in ExceptionKinds

\* C6 as stated: of two fetches for one username begun within 24 hours of
\* each other at most one goes to the API, so no fetch goes to the API
\* within 24 hours of an earlier one that did.
C6_Original ==
    [][\A u \in Usernames :
          (lastContact[u] # NoTime /\ now - lastContact[u] <= Day)
              => ~BeginsFetch(u)]_vars

\* C6 amended: when a fetch for a username has obtained a record from the
\* API and returned, no fetch for that username begun within 24 hours of
\* that return goes to the API.
C6_SecondCallCached ==
    [][\A u \in Usernames :
          (lastSuccess[u] # NoTime /\ now - lastSuccess[u] <= Day)
              => ~BeginsFetch(u)]_vars

C6_Witness ==
    /\ ServedFromCache(ret)
    /\ lastSuccess[ret.value.username] # NoTime
    /\ ret.age \in 1..Day

\* C7 as stated: a fetch that fails returns empty and adds nothing to the
\* cache, and the next fetch for the username then goes to the API.
C7_Original ==
    [][/\ \A c \in CallIds :
             (AsyncReturns(c) /\ FailureCause(ret'))
                 => (ret'.value = EmptyDict /\ GH_CACHE' = GH_CACHE)
       /\ \A u \in lastFailed : ~ServesNow(u)]_vars

\* C7 amended: a fetch that fails returns empty and leaves the cache as it
\* was; the next fetch for the username is answered by the cache only when
\* a fetch of that username that overlapped the failed one has stored a
\* record since the latest request to the API.
C7_FailureNotCached ==
    [][/\ \A c \in CallIds :
             (AsyncReturns(c) /\ FailureCause(ret'))
                 => (ret'.value = EmptyDict /\ GH_CACHE' = GH_CACHE)
       /\ \A u \in lastFailed :
             ServesNow(u) => lastSuccess[u] >= lastContact[u]]_vars

C7_Witness ==
    /\ ret.variant = "async"
    /\ ret.user = "status"
    /\ ret.value = EmptyDict
    /\ ParseUsername(ret.url) \in lastFailed
    /\ ParseUsername(ret.url) \notin DOMAIN GH_CACHE

\* https://github.com/<username> with a non-empty username and nothing after
IsCanonicalProfileUrl(url) ==
    /\ startswith(url, "https://github.com/")
    /\ Len(url) > Len("https://github.com/")
    /\ \A i \in (Len("https://github.com/") + 1)..Len(url) : SubSeq(url, i, i) # "/"

\* not starting with https://github.com/, or nothing before the next slash
HasNoFirstSegment(url) ==
    \/ ~startswith(url, "https://github.com/")
    \/ Len(url) = Len("https://github.com/")
    \/ SubSeq(url, Len("https://github.com/") + 1, Len("https://github.com/") + 1) = "/"

\* C8 as stated: a fetch of a URL that is not exactly a canonical profile
\* URL returns empty and sends no request.
C8_Original ==
    /\ (ret.variant # "" /\ ~IsCanonicalProfileUrl(ret.url))
           => (ret.value = EmptyDict /\ ~ret.contacted)
    /\ \A c \in InFlight : IsCanonicalProfileUrl(calls[c].url)

\* C8 amended: a fetch of a URL that does not start with
\* https://github.com/ or has an empty first path segment returns empty and
\* sends no request.
C8_ForeignUrlRejected ==
    /\ (ret.variant # "" /\ HasNoFirstSegment(ret.url))
           => (ret.value = EmptyDict /\ ~ret.contacted /\ ret.user = "none")
    /\ \A c \in InFlight : ~HasNoFirstSegment(calls[c].url)

C8_Witness ==
    /\ ret.variant = "async"
    /\ ret.url = "http://github.com/alice"
    /\ ret.value = EmptyDict

\* C9: no return of the fetcher is an exception, and a request that ended
\* in a network error, a timeout or undecodable JSON gives an empty result.
C9_NeverRaises ==
    /\ ~ret.raised
    /\ (ret.user \in ExceptionKinds \/ ret.repos \in ExceptionKinds)
           => ret.value = EmptyDict

C9_Witness ==
    /\ ret.variant = "async"
    /\ ret.repos = "badjson"
    /\ ret.value = EmptyDict
    /\ ~ret.raised

\* C10: while an entry is at most 24 hours old no fetch for its username
\* goes to the API, the entry stays, and a call it answers gets its data;
\* once it is older it answers no call, and it is removed only by a call
\* that goes to the API.
C10_ServedUntilTTL ==
    [][\A u \in DOMAIN GH_CACHE :
          /\ (now - GH_CACHE[u].ts <= Day)
                => /\ ~BeginsFetch(u)
                   /\ u \in DOMAIN GH_CACHE'
                   /\ ServesNow(u) => ret'.value = GH_CACHE[u].data
          /\ (now - GH_CACHE[u].ts > Day)
                => /\ ~ServesNow(u)
                   /\ (u \notin DOMAIN GH_CACHE') => BeginsFetch(u)]_vars

C10_Witness ==
    /\ ServedFromCache(ret)
    /\ ret.age = Day
    /\ \E c \in InFlight :
          /\ calls[c].username = ret.value.username
          /\ lastContact[calls[c].username] - lastSuccess[calls[c].username] = Day + 1

\* The keys of a statistics record.
StatsFields ==
    {"username", "public_repos", "followers", "following", "total_stars",
     "total_forks", "recent_activity", "profile_created", "bio", "company",
     "location", "blog"}

\* Every cache entry holds a record with every key, made for the username
\* it is stored under.
CacheEntriesComplete ==
    \A u \in DOMAIN GH_CACHE :
        /\ DOMAIN GH_CACHE[u].data = StatsFields
        /\ GH_CACHE[u].data.username = u

\* A step in which a fetch of u that obtained the user record returns the
\* record it built and leaves it in the cache, stamped with the present time.
StoresBySuccess(u) ==
    \E c \in CallIds :
        /\ calls[c].pc = "repos"
        /\ calls[c].username = u
        /\ calls'[c].pc = "free"
        /\ ret'.contacted
        /\ ret'.user = "ok"
        /\ ret'.repos \notin ExceptionKinds
        /\ ret'.value # EmptyDict
        /\ GH_CACHE'[u] = [ts |-> now, data |-> ret'.value]

\* C11: under every interleaving of fetches of two usernames, every cache
\* entry is a complete record for the username it is stored under; an entry
\* appears or changes only in the step in which a successful fetch of that
\* username returns, and disappears only when it is older than 24 hours.
C11_CacheWrittenBySuccessOnly ==
    [] CacheEntriesComplete
    /\ [][/\ \A u \in DOMAIN GH_CACHE' :
                (u \notin DOMAIN GH_CACHE \/ GH_CACHE'[u] # GH_CACHE[u])
                    => StoresBySuccess(u)
          /\ \A u \in DOMAIN GH_CACHE :
                (u \notin DOMAIN GH_CACHE') => now - GH_CACHE[u].ts > Day]_vars

C11_Witness ==
    /\ "alice" \in DOMAIN GH_CACHE
    /\ GH_CACHE["alice"].ts > 0
    /\ "bob" \notin DOMAIN GH_CACHE
    /\ lastSuccess["bob"] # NoTime
    /\ lastContact["bob"] > lastSuccess["bob"] + Day
    /\ \E c \in InFlight : calls[c].username = "bob"

----------------------------------------------------------------------------
(* Properties of the grouping rules *)

Decided == classified.group # ""

GithubCheckPasses == ~(classified.require_github /\ ~classified.has_github)

\* C1 as stated: when GitHub is required and no valid GitHub was found the
\* group is rejected and the reason is the bare sentence "GitHub missing and
\* GitHub is required.", whatever the tally.
C1_Original ==
    (Decided /\ classified.require_github /\ ~classified.has_github)
        => /\ classified.group = "rejected"
           /\ classified.group_reason = "GitHub missing and GitHub is required."

\* C1 amended: when GitHub is required and no valid GitHub was found the
\* group is rejected, whatever the tally, and the reason is the sentence
\* headed by the group label, "Rejected: GitHub missing and GitHub is required.".
C1_GithubRequiredRejects ==
    (Decided /\ classified.require_github /\ ~classified.has_github)
        => /\ classified.group = "rejected"
           /\ classified.group_reason
                 = "Rejected: GitHub missing and GitHub is required."

C1_Witness ==
    /\ Decided
    /\ classified.require_github
    /\ ~classified.has_github
    /\ classified.yes_count = classified.total_q
    /\ classified.yes_count > 0

\* C2 as stated: when the GitHub check passes and 0 < yes_count <
\* total_criteria the group is potential_fit exactly when twice the yes
\* answers reach the number of criteria, and otherwise rejected with the bare
\* reason "fewer than half of the criteria were met.".
C2_Original ==
    (/\ Decided
     /\ GithubCheckPasses
     /\ 0 < classified.yes_count
     /\ classified.yes_count < classified.total_q)
        => /\ (classified.group = "potential_fit")
                 <=> (2 * classified.yes_count >= classified.total_q)
           /\ (classified.group # "potential_fit")
                 => /\ classified.group = "rejected"
                    /\ classified.group_reason
                          = "fewer than half of the criteria were met."

\* C2 amended: when the GitHub check passes and 0 < yes_count <
\* total_criteria the group is potential_fit exactly when twice the yes
\* answers reach the number of criteria, and otherwise rejected with the
\* reason "Rejected: fewer than half of the criteria were met.".
C2_MajorityIsPotentialFit ==
    (/\ Decided
     /\ GithubCheckPasses
     /\ 0 < classified.yes_count
     /\ classified.yes_count < classified.total_q)
        => /\ (classified.group = "potential_fit")
                 <=> (2 * classified.yes_count >= classified.total_q)
           /\ (classified.group # "potential_fit")
                 => /\ classified.group = "rejected"
                    /\ classified.group_reason
                          = "Rejected: fewer than half of the criteria were met."

C2_Witness ==
    /\ Decided
    /\ GithubCheckPasses
    /\ classified.total_q = 5
    /\ classified.yes_count = 2
    /\ classified.group = "rejected"

\* C3 as stated: when the GitHub check passes and no criterion was met the
\* group is rejected with the bare reason "none of the criteria were met.",
\* also when there are no criteria at all.
C3_Original ==
    (Decided /\ GithubCheckPasses /\ classified.yes_count = 0)
        => /\ classified.group = "rejected"
           /\ classified.group_reason = "none of the criteria were met."

\* C3 amended: when the GitHub check passes and no criterion was met the
\* group is rejected with the reason "Rejected: none of the criteria were
\* met.", also when there are no criteria at all.
C3_NoneMetRejected ==
    (Decided /\ GithubCheckPasses /\ classified.yes_count = 0)
        => /\ classified.group = "rejected"
           /\ classified.group_reason = "Rejected: none of the criteria were met."

C3_Witness ==
    /\ Decided
    /\ GithubCheckPasses
    /\ classified.yes_count = 0
    /\ classified.total_q = 0
    /\ classified.group = "rejected"

\* C4 as stated: the group is strongly_consider exactly when the GitHub
\* check passes and yes_count equals total_criteria and is not 0, and its
\* reason is then the bare sentence "all criteria were met.".
C4_Original ==
    Decided =>
        /\ (classified.group = "strongly_consider")
              <=> (/\ GithubCheckPasses
                   /\ classified.yes_count = classified.total_q
                   /\ classified.yes_count > 0)
        /\ (classified.group = "strongly_consider")
              => classified.group_reason = "all criteria were met."

\* C4 amended: the group is strongly_consider exactly when the GitHub check
\* passes and yes_count equals total_criteria and is not 0, and its reason
\* is then "Strongly consider: all criteria were met.".
C4_AllMetStronglyConsider ==
    Decided =>
        /\ (classified.group = "strongly_consider")
              <=> (/\ GithubCheckPasses
                   /\ classified.yes_count = classified.total_q
                   /\ classified.yes_count > 0)
        /\ (classified.group = "strongly_consider")
              => classified.group_reason
                    = "Strongly consider: all criteria were met."

C4_Witness ==
    /\ Decided
    /\ classified.require_github
    /\ classified.has_github
    /\ classified.yes_count = classified.total_q
    /\ classified.group = "strongly_consider"

----------------------------------------------------------------------------
(* Properties of /analyze *)

\* The identifiers extracted from the uploaded file of the given name.
ExtractedFrom(filename) ==
    UNION {{u.text_links[i] : i \in DOMAIN u.text_links}
              \cup {u.pdf_links[i] : i \in DOMAIN u.pdf_links} :
           u \in {v \in Uploads : v.filename = filename}}

\* The resume was uploaded in this request.
Uploaded(filename) == \E i \in DOMAIN resumes : resumes[i].id = filename

\* The task started for the resume fetched one of its identifiers and came
\* back with statistics that are not empty.
ResolvedFor(filename) ==
    \E j \in DOMAIN github_tasks :
        /\ github_tasks[j].rid = filename
        /\ github_tasks[j].url \in ExtractedFrom(filename)
        /\ github_tasks[j].result.kind = "dict"
        /\ github_tasks[j].result.value # EmptyDict

\* The task started for the resume came back empty or with an exception.
CameBackEmpty(filename) ==
    \E j \in DOMAIN github_tasks :
        /\ github_tasks[j].rid = filename
        /\ github_tasks[j].result # NoOutcome
        /\ \/ github_tasks[j].result.kind # "dict"
           \/ github_tasks[j].result.value = EmptyDict

\* C5: a result of /analyze has has_github true only for an uploaded resume
\* one of whose extracted identifiers resolved to statistics that are not
\* empty; a resume whose fetch came back empty never has has_github true.
C5_HasGithubOnlyIfResolved ==
    \A k \in DOMAIN results_out :
        /\ results_out[k].has_github
              => /\ Uploaded(results_out[k].resume_id)
                 /\ ResolvedFor(results_out[k].resume_id)
        /\ CameBackEmpty(results_out[k].resume_id)
              => ~results_out[k].has_github

C5_Witness ==
    /\ pc = "done"
    /\ \E k \in DOMAIN results_out :
          /\ results_out[k].has_github
          /\ results_out[k].github_stats # EmptyDict
    /\ \E k \in DOMAIN results_out :
          /\ ~results_out[k].has_github
          /\ results_out[k].github_candidates # <<>>
          /\ CameBackEmpty(results_out[k].resume_id)

\* What the task started for the resume came back with.
OwnStats(filename) ==
    LET j == CHOOSE i \in DOMAIN github_tasks : github_tasks[i].rid = filename
    IN  github_tasks[j].result.value

\* The GitHub part and the group of the k-th result follow from the reply
\* entry and from the task of the resume it names, and from no other task.
FromOwnTaskOnly(k) ==
    LET r == results_out[k]
        own == ResolvedFor(r.resume_id)
    IN  /\ r.has_github = own
        /\ r.github_stats = IF own THEN OwnStats(r.resume_id) ELSE EmptyDict
        /\ (r.github_score = 0) <=> ~own
        /\ r.group = Classify(r.yes_count, total_q, require_github, own).group

\* C12: a resume whose statistics task came back empty or with an exception
\* is reported with has_github false, empty statistics and score 0; every
\* result follows from its own task alone; the response carries a result
\* for every entry of the reply and every resume kept from the matching
\* call; and the request fails only when the matching call does.
C12_FetchFailureDegrades ==
    [] (/\ \A k \in DOMAIN results_out :
              /\ CameBackEmpty(results_out[k].resume_id)
                    => /\ ~results_out[k].has_github
                       /\ results_out[k].github_stats = EmptyDict
                       /\ results_out[k].github_score = 0
              /\ FromOwnTaskOnly(k)
        /\ (pc = "done") =>
              Len(results_out) = Len(Get(openai_results, "results", <<>>))
                                    + Len(resumes_without_github))
    /\ [][(pc' = "error" /\ pc # "error") => pc = "openai"]_vars

C12_Witness ==
    /\ pc = "done"
    /\ \E j \in DOMAIN github_tasks : github_tasks[j].result.kind = "exception"
    /\ \E k \in DOMAIN results_out :
          /\ CameBackEmpty(results_out[k].resume_id)
          /\ results_out[k].github_candidates # <<>>
          /\ results_out[k].github_score = 0
    /\ \E k \in DOMAIN results_out :
          /\ results_out[k].has_github
          /\ results_out[k].github_score > 0

\* The usernames of the identifiers extracted from the uploaded file.
OwnUsernames(filename) == {ParseUsername(url) : url \in ExtractedFrom(filename)}

\* C13: the statistics in a result are those the task started for the
\* resume it names came back with, and they describe an account extracted
\* from that resume, in whatever order the tasks finished.
C13_StatsJoinedByResume ==
    \A k \in DOMAIN results_out :
        results_out[k].github_stats # EmptyDict
            => /\ Uploaded(results_out[k].resume_id)
               /\ results_out[k].github_stats = OwnStats(results_out[k].resume_id)
               /\ results_out[k].github_stats.username
                     \in OwnUsernames(results_out[k].resume_id)
               /\ results_out[k].github_url
                     = GithubPrefix \o results_out[k].github_stats.username

C13_Witness ==
    /\ pc = "done"
    /\ Len(github_tasks) = 2
    /\ github_tasks[1].finished = 2
    /\ github_tasks[2].finished = 1
    /\ \E k \in DOMAIN results_out :
          /\ results_out[k].resume_id = github_tasks[1].rid
          /\ results_out[k].github_stats # EmptyDict
    /\ \E k \in DOMAIN results_out :
          /\ results_out[k].resume_id = github_tasks[2].rid
          /\ results_out[k].github_stats # EmptyDict
          /\ results_out[k].github_stats.username # github_tasks[1].result.value.username

\* The ids of the resumes that are to be evaluated: all of them, or those
\* with a GitHub identifier when one is required.
IdsToEvaluate ==
    LET sent == SelectSeq(resumes,
                          LAMBDA r : ~require_github \/ r.gh_links # <<>>)
    IN  [i \in DOMAIN sent |-> sent[i].id]

\* Every resume with a GitHub identifier has a task.
TasksStarted ==
    \A i \in DOMAIN resumes :
        resumes[i].gh_links # <<>>
            => \E j \in DOMAIN github_tasks : github_tasks[j].rid = resumes[i].id

\* C14: a request issues at most one matching call, and that call carries
\* every resume to be evaluated; when it is issued the statistics tasks
\* exist, none of them finished; results are assembled only once the call
\* is no longer outstanding.
C14_OneBatchedCall ==
    [] (/\ Len(openai_calls) <= 1
        /\ \A i \in DOMAIN openai_calls : openai_calls[i] = IdsToEvaluate
        /\ (pc = "openai") => (Len(openai_calls) = 1 /\ TasksStarted))
    /\ [][/\ (openai_calls' # openai_calls)
                => /\ \A j \in DOMAIN github_tasks' :
                         github_tasks'[j].result = NoOutcome
                   /\ github_tasks = <<>>
          /\ (results_out' # results_out)
                => /\ pc = "gather"
                   /\ \A j \in DOMAIN github_tasks : github_tasks[j].finished > 0
          /\ (pc = "openai")
                => \A j \in DOMAIN github_tasks :
                      github_tasks'[j].rid = github_tasks[j].rid]_vars

C14_Witness ==
    /\ pc = "openai"
    /\ Len(openai_calls) = 1
    /\ Len(openai_calls[1]) = 2
    /\ Len(github_tasks) = 2
    /\ github_tasks[1].finished = 0
    /\ github_tasks[2].finished = 1
    /\ results_out = <<>>

----------------------------------------------------------------------------
(* Properties of the call of the matching model *)

\* The exchange of the latest call timed out.
TimedOut == llm_ret.outcome.kind = "raises" /\ llm_ret.outcome.exc \in HttpxTimeouts

\* C15: a call of the matching model returns the content of the response,
\* or raises the timeout error when the exchange timed out, or raises the
\* generic failure for any other failure; no other exception leaves it.
C15_Original ==
    (llm_ret.variant # "") =>
        IF llm_ret.outcome.kind = "ok"
        THEN llm_ret.raised = "none" /\ llm_ret.text = llm_ret.outcome.content
        ELSE IF TimedOut
        THEN llm_ret.raised = "TimeoutError"
        ELSE llm_ret.raised = "RuntimeError"

----------------------------------------------------------------------------
(* Properties of the handling of the reply of the matching model *)

\* The entries of the reply the results are built from (main.py:444).
ReplyResults == Get(openai_results, "results", <<>>)

\* C16: a reply of the matching model that lacks the answer list of an entry
\* is never turned into a default answer set: a result with zero yes answers
\* is built only from an entry that carries answers.
C16_Original ==
    (pc = "done") =>
        \A i \in DOMAIN ReplyResults :
            results_out[i].yes_count = 0 => "answers" \in DOMAIN ReplyResults[i]

----------------------------------------------------------------------------
(* Properties of the reputation score *)

\* C17: for every statistics record with non-negative counts, however
\* large, the score lies between 0 and 100 (here in tenths of a point).
C17_ScoreInRange ==
    scored.called => scored.score >= 0 /\ scored.score <= 1000

C17_Witness ==
    /\ scored.called
    /\ scored.stats # EmptyDict
    /\ "total_stars" \in DOMAIN scored.stats
    /\ scored.stats.total_stars > 500
    /\ scored.stats.public_repos > 50
    /\ scored.score < 1000

\* One row of the score table, in hundredths of a point: min(n, cap) / cap
\* * points.
Row(n, cap, points) == (Min(n, cap) * points * 100) \div cap

\* Two points, in hundredths, for a sub-check of the completeness row.
TwoPoints(holds) == IF holds THEN 200 ELSE 0

\* The sum of the six rows, in hundredths of a point.
SixRows(stats) ==
    Row(Get(stats, "public_repos", 0), 50, 20)
    + Row(Get(stats, "total_stars", 0), 500, 25)
    + Row(Get(stats, "followers", 0), 100, 15)
    + Row(Get(stats, "recent_activity", 0), 20, 20)
    + Row(Get(stats, "total_forks", 0), 100, 10)
    + TwoPoints(Get(stats, "bio", "") # "")
    + TwoPoints(Get(stats, "company", "") # "")
    + TwoPoints(Get(stats, "location", "") # "")
    + TwoPoints(Get(stats, "blog", "") # "")
    + TwoPoints(Get(stats, "public_repos", 0) > 0)

\* Every cap is reached and the four profile fields are filled in.
AllCapsReached(stats) ==
    /\ Get(stats, "public_repos", 0) >= 50
    /\ Get(stats, "total_stars", 0) >= 500
    /\ Get(stats, "followers", 0) >= 100
    /\ Get(stats, "recent_activity", 0) >= 20
    /\ Get(stats, "total_forks", 0) >= 100
    /\ \A f \in {"bio", "company", "location", "blog"} : Get(stats, f, "") # ""

\* C18: the score is 0.0 for the empty record; otherwise it is the sum of
\* the six capped rows rounded to a nearest tenth and clamped to 100.0, and
\* it is exactly 100.0 when every cap is reached and the profile is complete.
C18_ScoreFormula ==
    scored.called =>
        IF scored.stats = EmptyDict
        THEN scored.score = 0
        ELSE /\ \E tenths \in {SixRows(scored.stats) \div 10,
                                 SixRows(scored.stats) \div 10 + 1} :
                   /\ 10 * tenths - SixRows(scored.stats) \in -5..5
                   /\ scored.score = Min(tenths, 1000)
             /\ AllCapsReached(scored.stats) => scored.score = 1000

C18_Witness ==
    /\ scored.called
    /\ AllCapsReached(scored.stats)
    /\ scored.stats.total_stars > 500
    /\ scored.score = 1000

----------------------------------------------------------------------------
(* Properties of the extraction of GitHub links *)

\* The link is the profile root of its username.
IsProfileLink(link) == link = "https://github.com/" \o link_username(link)

\* The surface forms of the account alice among the mentions.
AliceForms ==
    {"https://github.com/alice", "http://www.github.com/alice/repo",
     "github.com/alice", "GitHub: alice", "@alice on GitHub"}

\* The entries of the returned list that belong to the username.
EntriesOf(username) ==
    {i \in DOMAIN extracted.links : link_username(extracted.links[i]) = username}

ValidUsername(u) ==
    /\ Len(u) > 2
    /\ \A i \in 1..Len(u) : SubSeq(u, i, i) \in NameSet \ {".", "_"}
    /\ SubSeq(u, 1, 1) # "-"
    /\ SubSeq(u, Len(u), Len(u)) # "-"
    /\ \A i \in 1..(Len(u) - 1) : SubSeq(u, i, i + 1) # "--"
    /\ lower(u) \notin {"about", "admin", "api", "settings", "marketplace"}

\* The mentions whose name breaks a rule.
InvalidMentions ==
    {"github.com/admin", "github.com/api", "github.com/Settings",
     "github.com/-bad-", "github.com/a--b", "github.com/ab", "github.com/a_b.c"}

\* C20: every link extract_github_links returns has a valid username, and a
\* text whose only mentions break the rules yields the empty list.
C20_Original ==
    (extracted.called /\ extracted.variant = "utils") =>
        /\ \A i \in DOMAIN extracted.links :
              ValidUsername(link_username(extracted.links[i]))
        /\ (\A k \in DOMAIN extracted.given : extracted.given[k] \in InvalidMentions)
              => extracted.links = <<>>

----------------------------------------------------------------------------
(* Properties of the handling of @mentions *)

\* The mentions that name no platform: a bare handle and an e-mail address.
GenericMentions == {"@developer", "carol@example.com", "Twitter: @dev_1", "@al"}

\* C21: a text whose only mentions are generic ones, a bare @handle or an
\* ordinary e-mail address, yields no link.
C21_Original ==
    (extracted.called /\ extracted.variant = "gemini") =>
        ((\A k \in DOMAIN extracted.given : extracted.given[k] \in GenericMentions)
            => extracted.links = <<>>)

----------------------------------------------------------------------------
(* Properties of the form of the links returned *)

\* The link is in canonical form: the profile root of a username, with the
\* scheme https, without www., without a repository suffix and without a
\* trailing slash.
Canonical(link) ==
    /\ startswith(link, "https://github.com/")
    /\ Len(link) > Len("https://github.com/")
    /\ \A i \in (Len("https://github.com/") + 1)..Len(link) : SubSeq(link, i, i) # "/"

\* C22: every link an extraction returns is in canonical form.
C22_Original ==
    extracted.called =>
        \A i \in DOMAIN extracted.links : Canonical(extracted.links[i])

----------------------------------------------------------------------------
(* Properties of the links of a PDF *)

\* The annotation is a Link with a URI action whose URI is a string of an
\* object that can be read.
IsUriLink(a) ==
    /\ a.item = "annotation"
    /\ a.resolves
    /\ a.subtype = "/Link"
    /\ a.action = "/URI"
    /\ a.is_str

\* The positions of the URI links of the document, in page order and then
\* annotation order.
UriLinkPositions == {i \in DOMAIN extracted.given.items : IsUriLink(extracted.given.items[i])}

\* The document can be parsed.
Parsable ==
    /\ extracted.given.parses
    /\ \A i \in DOMAIN extracted.given.items :
          extracted.given.items[i].item # "unreadable_page"

\* The position of the first URI link whose URI is the string.
FirstPosition(uri) ==
    CHOOSE i \in UriLinkPositions :
        /\ extracted.given.items[i].uri = uri
        /\ \A j \in UriLinkPositions : extracted.given.items[j].uri = uri => i <= j

FirstTrimmedPosition(uri) ==
    CHOOSE i \in UriLinkPositions :
        /\ strip(extracted.given.items[i].uri) = uri
        /\ \A j \in UriLinkPositions :
              strip(extracted.given.items[j].uri) = uri => i <= j

----------------------------------------------------------------------------
(* Properties of the candidates of a resume *)

\* The username of a candidate, a profile URL https://github.com/<username>.
CandidateName(link) == SubSeq(link, Len(GithubPrefix) + 1, Len(link))

\* The positions of the candidates of the resume that its text yields.
TextPositions(r) == {a \in DOMAIN r.gh_links : r.gh_links[a] \in Range(r.gh_text_links)}

\* C24: the candidates of a resume are the links of its text and of its
\* annotations, no username occurs twice among them, every candidate found
\* in the text stands before every candidate found in the annotations only,
\* and the statistics are fetched for a candidate of the text whenever the
\* text yields one.
C24_TextCandidatesFirst ==
    \A i \in DOMAIN resumes :
        LET r == resumes[i]
        IN  /\ Range(r.gh_links) = Range(r.gh_text_links) \cup Range(r.gh_pdf_links)
            /\ \A a, b \in DOMAIN r.gh_links :
                  a # b => CandidateName(r.gh_links[a]) # CandidateName(r.gh_links[b])
            /\ \A a \in TextPositions(r), b \in DOMAIN r.gh_links \ TextPositions(r) : a < b
            /\ \A j \in DOMAIN github_tasks :
                  (github_tasks[j].rid = r.id /\ r.gh_text_links # <<>>)
                      => github_tasks[j].url \in Range(r.gh_text_links)

C24_Witness ==
    \E i \in DOMAIN resumes, j \in DOMAIN github_tasks :
        /\ resumes[i].gh_text_links = <<"https://github.com/alice">>
        /\ resumes[i].gh_pdf_links = <<"https://github.com/adam", "https://github.com/alice">>
        /\ resumes[i].gh_links = <<"https://github.com/alice", "https://github.com/adam">>
        /\ github_tasks[j].rid = resumes[i].id
        /\ github_tasks[j].url = "https://github.com/alice"
        /\ github_tasks[j].finished > 0

----------------------------------------------------------------------------
(* Properties of the resumes without a GitHub identifier *)

\* The resumes for which no GitHub identifier was extracted.
WithoutIdentifier == {i \in DOMAIN resumes : resumes[i].gh_links = <<>>}

\* The result answers every criterion with no and rejects the resume for
\* the missing GitHub identifier.
RejectedForMissingGithub(result) ==
    /\ Len(result.answers) = total_q
    /\ \A q \in DOMAIN result.answers : result.answers[q].answer = "no"
    /\ result.yes_count = 0
    /\ result.no_count = total_q
    /\ result.group = "rejected"
    /\ result.group_reason = "Rejected: GitHub missing and GitHub is required."

\* C25: when GitHub is required, no matching call carries a resume without
\* an extracted identifier, no call is made when no resume has one, and the
\* results hold for each such resume an entry that answers every criterion
\* with no and rejects it for the missing identifier.
C25_WithoutIdentifierRejected ==
    require_github =>
        /\ \A c \in DOMAIN openai_calls, i \in WithoutIdentifier :
              resumes[i].id \notin Range(openai_calls[c])
        /\ WithoutIdentifier = DOMAIN resumes => openai_calls = <<>>
        /\ pc = "done" =>
              \A i \in WithoutIdentifier :
                  \E k \in DOMAIN results_out :
                      /\ results_out[k].resume_id = resumes[i].id
                      /\ RejectedForMissingGithub(results_out[k])

C25_Witness ==
    /\ require_github
    /\ pc = "done"
    /\ Len(resumes) = 2
    /\ Cardinality(WithoutIdentifier) = 1
    /\ Len(openai_calls) = 1
    /\ Len(openai_calls[1]) = 1
    /\ total_q = 2
    /\ \E k \in DOMAIN results_out :
          /\ results_out[k].resume_id = "none.txt"
          /\ RejectedForMissingGithub(results_out[k])

----------------------------------------------------------------------------
(* Properties of the results of a request *)

\* The entries of the results that carry the resume id.
ResultsOf(resume_id) == {k \in DOMAIN results_out : results_out[k].resume_id = resume_id}

\* C26: when the request has finished, every uploaded resume has exactly
\* one entry in the results and every entry carries the filename of an
\* uploaded resume, whatever the reply of the matching call names.
C26_Original ==
    pc = "done" =>
        /\ \A i \in DOMAIN resumes : Cardinality(ResultsOf(resumes[i].id)) = 1
        /\ \A k \in DOMAIN results_out :
              \E i \in DOMAIN resumes : results_out[k].resume_id = resumes[i].id

\* C27: in every result the number of yes answers lies between zero and
\* the number of criteria, the number of no answers is the rest and is not
\* negative, and the group strongly_consider goes with a yes to every
\* criterion.
C27_Original ==
    \A k \in DOMAIN results_out :
        /\ 0 <= results_out[k].yes_count
        /\ results_out[k].yes_count <= total_q
        /\ results_out[k].no_count = total_q - results_out[k].yes_count
        /\ results_out[k].no_count >= 0
        /\ results_out[k].group = "strongly_consider"
              => results_out[k].yes_count = total_q

----------------------------------------------------------------------------
(* Properties of the rate limiter *)

\* The requests admitted since the window began.
AdmittedInWindow ==
    {k \in DOMAIN limiter.admitted : limiter.admitted[k] >= limiter.window_start}

\* C28: request_count never exceeds max_requests_per_window, and no more
\* than max_requests_per_window requests are admitted within one window.
C28_Original ==
    /\ limiter.request_count <= max_requests_per_window
    /\ Cardinality(AdmittedInWindow) <= max_requests_per_window

----------------------------------------------------------------------------
(* Properties of analyze_resume *)

\* The attempt ended with a rate-limit error of the API.
RateLimited(outcome) == outcome.ends = "raises" /\ outcome.status = 429

\* C29: analyze_resume makes at most five attempts, every attempt but the
\* last ended with a rate-limit error, and it returns the fallback record
\* when its last attempt raised: on the first error that is no rate-limit
\* error, or on the fifth rate-limit error.
C29_Original ==
    /\ analysis.api_calls <= 5
    /\ analysis.at \in {"idle", "attempt", "returned"}
    /\ \A k \in DOMAIN analysis.outcomes :
          k < Len(analysis.outcomes) => RateLimited(analysis.outcomes[k])
    /\ analysis.at = "attempt" =>
          \A k \in DOMAIN analysis.outcomes : RateLimited(analysis.outcomes[k])
    /\ analysis.at = "returned" =>
          LET last == analysis.outcomes[Len(analysis.outcomes)]
          IN  /\ last.ends = "raises" =>
                    /\ analysis.result = Fallback(analysis.file_name)
                    /\ RateLimited(last) => analysis.api_calls = 5
              /\ last.ends = "returns" =>
                    analysis.result = WithFileName(last.value, analysis.file_name)

----------------------------------------------------------------------------
(* Properties of rank_resumes *)

\* The entries of a list that carry the file name.
EntriesFor(list, file_name) == {k \in DOMAIN list : list[k].file_name = file_name}

\* C30: when rank_resumes returns, every PDF it processed has exactly one
\* entry, in the ranked or in the rejected list; a ranked candidate's result
\* has isQualified true, a githubUrl that passes is_valid_github_url and the
\* group 1 or 2; and the scores of the ranked list do not increase.
C30_RankedAndRejected ==
    ranking.at = "returned" =>
        /\ \A i \in DOMAIN ranking.pdf_files :
              Cardinality(EntriesFor(ranking.ranked_candidates, PdfNames[i]))
                  + Cardinality(EntriesFor(ranking.rejected_candidates, PdfNames[i])) = 1
        /\ Len(ranking.ranked_candidates) + Len(ranking.rejected_candidates)
              = Len(ranking.pdf_files)
        /\ \A i \in DOMAIN ranking.pdf_files :
              EntriesFor(ranking.ranked_candidates, PdfNames[i]) # {}
                  => /\ ranking.results[i] # EmptyDict
                     /\ ranking.results[i].isQualified
                     /\ is_valid_github_url(ranking.results[i].githubUrl)
                     /\ ranking.results[i].group
                           \in {"Group 1: High potential", "Group 2: Silver medalist"}
        /\ \A k \in DOMAIN ranking.ranked_candidates :
              k > 1 => ranking.ranked_candidates[k - 1].score
                          >= ranking.ranked_candidates[k].score

C30_Witness ==
    /\ ranking.at = "returned"
    /\ Len(ranking.pdf_files) = 2
    /\ Len(ranking.ranked_candidates) = 2
    /\ ranking.ranked_candidates[1].file_name = "b.pdf"
    /\ ranking.ranked_candidates[1].score = 90
    /\ ranking.ranked_candidates[2].file_name = "a.pdf"
    /\ ranking.ranked_candidates[2].score = 40

====
